---- MODULE Spec2Model ----
(***************************************************************************)
(* NowClipboard: the capability-negotiation and retry/fallback chain.      *)
(* One call of NowClipboard.copy / NowClipboard.read is followed from its  *)
(* entry point through retryOperation, withTimeout, the write/read chain   *)
(* and the Node.js child-process adapter.  Every action is one task of the *)
(* JavaScript event loop: the handler together with the promise reactions  *)
(* (microtasks) it triggers.  Time is a discrete clock; a timer callback   *)
(* runs when the clock reaches its due time.                               *)
(* Spec follows one copy or read in every environment.  SpecOptions,       *)
(* SpecThrow, SpecRoundTrip, SpecCut, SpecImage and SpecAdapterRead follow *)
(* the retry configuration, mechanisms that throw, a copy and then a read, *)
(* NowClipboard.cut, NowClipboard.copyImage and the adapter's read output. *)
(* SpecPermission follows NowClipboard.queryPermission, SpecNeither every  *)
(* static operation where there is neither a document nor Node.js,         *)
(* SpecPaste the listeners of NowClipboard.onPaste, and SpecEmitter the    *)
(* event emitter of a NowClipboard instance and its destroy().             *)
(* SpecLegacy follows the off-screen element of the execCommand path,      *)
(* SpecContext a document that appears after the library was loaded,       *)
(* SpecConcurrent two overlapping calls of NowClipboard.copy, and          *)
(* SpecClick one click on the trigger of an instance, from onClick to the  *)
(* event it emits.                                                         *)
(***************************************************************************)
EXTENDS Integers, Sequences, FiniteSets, TLC

\* ---------------------------------------------------------------- bounds
MaxRetries == 3
MaxTime == 7
MaxChunks == 1
MaxEnvChanges == 1

\* ------------------------------------------------------ program constants
DefaultRetries == 2
DefaultRetryDelay == 100
DefaultTimeout == 0

\* `null'/`undefined' for a numeric option field
Absent == -1

\* ------------------------------------------------------------ input sets
Texts == {<<"a">>, <<"b">>}
Chunks == {<<"a">>, <<"\n">>, <<"\r", "\n">>}
RetryDelays == {1, 2}
Timeouts == {0, 3}
ExitCodes == {0, 1, 2}
Platforms == {"win32", "darwin", "linux"}
ExecResults == {"true", "false", "throw"}
SpawnResults == {"ok", "throw"}

\* the arguments a caller may hand to NowClipboard.copy
StringArgs == {[type |-> "string", val |-> t] : t \in Texts}
NonStringArgs == {[type |-> "number", val |-> <<"4", "2">>]}
CopyArgs == StringArgs \cup NonStringArgs

\* the options a caller may hand over: nothing, a bare number, or an object
\* whose fields may each be absent
OptionValues ==
  {[type |-> "undefined", retries |-> Absent, retryDelay |-> Absent, timeout |-> Absent]}
  \cup {[type |-> "number", retries |-> n, retryDelay |-> Absent, timeout |-> Absent] :
          n \in 0..MaxRetries}
  \cup {[type |-> "object", retries |-> n, retryDelay |-> d, timeout |-> t] :
          n \in 0..MaxRetries, d \in RetryDelays, t \in Timeouts}
  \cup {[type |-> "object", retries |-> Absent, retryDelay |-> 1, timeout |-> Absent]}

\* ------------------------------------------------- promise settlements
\* A settlement value: tag is "pending", "ok" or "err".  An error carries its
\* message kind, the exit code or timeout it mentions, and the index of the
\* operation invocation that created it (the identity of the error object).
Pending == [tag |-> "pending", msg |-> "", code |-> 0, inv |-> 0, text |-> <<>>]
Ok(t) == [tag |-> "ok", msg |-> "", code |-> 0, inv |-> 0, text |-> t]
Err(m, c, i) == [tag |-> "err", msg |-> m, code |-> c, inv |-> i, text |-> <<>>]

\* A child process: events lists the 'error'/'close' events it has emitted so
\* far, in order; code is the exit code its 'close' handler acted on; output
\* is the handlers' variable of that name; emitted lists the chunks the
\* process wrote to its standard output, where the specification follows them.
NoProc == [st |-> "none", finished |-> FALSE, events |-> <<>>, code |-> 0, cmd |-> "",
           args |-> <<>>, mode |-> "", stdin |-> <<>>, output |-> <<>>, chunks |-> 0,
           emitted |-> <<>>]

NoTimer == [st |-> "none", due |-> 0]

NoBackoff == [armed |-> FALSE, due |-> 0, setAt |-> 0]

\* no call came before
NoEarlier == [text |-> <<>>, res |-> Pending, mechs |-> <<>>]

\* copyImage: st is "none", "normalizing" (fetchImageBlob's promise is
\* pending), "writing" (retryOperation is under way) or "done"; normalized
\* counts the runs of fetchImageBlob, blob is the blob it produced, writes
\* lists the blob of every navigator.clipboard.write, res is the settlement
\* of the promise copyImage returned
NoImage == [st |-> "none", source |-> "", normalized |-> 0, blob |-> <<>>,
            writes |-> <<>>, res |-> Pending]

\* An element: its nodeName, whether it has the contenteditable attribute,
\* and its content (the value of an INPUT or TEXTAREA, else its inner markup)
NoElement == [nodeType |-> 0, nodeName |-> "", contenteditable |-> FALSE,
              content |-> <<>>]

\* performCut: st is "none", "copying" (the fallback copyText is under way)
\* or "done"; cmd is what execCommand('cut') did, text what selectText
\* returned, res the settlement of the promise performCut returned
NoCut == [st |-> "none", cmd |-> "", text |-> <<>>, res |-> Pending]

\* queryPermission: query is whether navigator.permissions.query is a
\* function; st is "none", "querying" (the platform's promise is pending) or
\* "done"; name is the argument; asked lists the permission names handed to
\* the platform; outcome is how the platform's query ended ("threw",
\* "rejected", "resolved") and reported the state it resolved with; res is
\* the settlement of the promise queryPermission returned
NoPermission == [query |-> FALSE, st |-> "none", name |-> "", asked |-> <<>>,
                 outcome |-> "none", reported |-> "",
                 res |-> [tag |-> "pending", state |-> "", msg |-> ""]]

\* NowClipboard.onPaste: bindings lists the calls that returned a handle,
\* each with its target, the number of destroy() calls on its handle, the
\* records its callback received, how many paste events it was there to
\* observe and how many calls reached the callback after destroy(); dom is
\* the listener table of the document's nodes (node, type, listener,
\* capture); pastes counts the paste events; thrown is whether the last call
\* of onPaste threw
NoPaste == [bindings |-> <<>>, dom |-> {}, pastes |-> 0, thrown |-> FALSE]

\* A NowClipboard instance.  st is "none" before the constructor has run;
\* events is _events: for each event name the list of listener records, each
\* with the identity of the record, its function and its once flag (an
\* absent key is the empty list); destroyed is _destroyed; bound is whether
\* _listener holds the click binding, which is then registered in the
\* document; unbinds counts the calls of _listener.destroy(); inflight
\* counts the operations onClick started whose promise is pending; thrown is
\* whether the last call ended with an exception.  For the properties:
\* count[id] is record id's once flag and how often its function was
\* invoked, late how many
\* invocations happened with _destroyed set, offed the (event, function)
\* pairs removed by off() and not registered since, stale how many
\* invocations an emit made of a pair that was in offed when the emit began,
\* emits the number of emits the program or its user started.
NoInstance == [st |-> "none", events |-> [ev \in {"success", "error"} |-> <<>>],
               destroyed |-> FALSE, bound |-> FALSE, unbinds |-> 0, inflight |-> 0,
               thrown |-> FALSE, count |-> <<>>, late |-> 0, offed |-> {}, stale |-> 0,
               emits |-> 0]

\* What a click resolved to: the target element, if any, and whether it
\* has the readonly and the disabled attribute
NoTarget == [el |-> NoElement, readonly |-> FALSE, disabled |-> FALSE]

\* One click on the trigger of an instance.  settings is what resolveOptions
\* stored in the instance (retries, retryDelay, timeout); st is "none",
\* "operating" (onClick has started an operation whose promise is pending)
\* or "done"; action, text, target and rich are what the click resolved to;
\* branch is the branch of onClick that ran; emitted lists the events
\* onClick and its promise callbacks emitted, in order.
NoClick == [st |-> "none",
            settings |-> [retries |-> DefaultRetries, retryDelay |-> DefaultRetryDelay,
                          timeout |-> DefaultTimeout],
            action |-> "", text |-> <<>>, target |-> NoTarget, rich |-> FALSE,
            branch |-> "", emitted |-> <<>>]

\* The document as the legacy copies see it: temps counts the offscreen
\* elements they have appended to the container and not removed, selected
\* is whether the page's selection holds a range.
NoTemps == [temps |-> 0, selected |-> FALSE]

VARIABLES
  isBrowser,   \* _isBrowser
  isNode,      \* _isNode
  platform,    \* process.platform
  writeApi,    \* typeof navigator.clipboard.writeText === 'function'
  readApi,     \* typeof navigator.clipboard.readText === 'function'
  now,         \* the clock
  clipboard,   \* the system clipboard's text
  kind,        \* which entry point was called: "none", "copy", "read"
  arg,         \* the text argument of copy
  cfg,         \* parseRetryConfig's result
  start,       \* the time of the call
  attempt,     \* retryOperation's attempt counter
  seq,         \* settlement of the promise tryOnce() returned
  caller,      \* settlement of the promise the caller holds
  callerAt,    \* the time the caller's promise settled
  tmo,         \* withTimeout's timer
  bk,          \* the pending backoff timer of tryOnce
  invocations, \* number of invocations of the operation fn by tryOnce
  cur,         \* the invocation in progress or last finished: what it tried
  delays,      \* the delays handed to setTimeout by tryOnce, in order
  waits,       \* the time each backoff timer actually took to fire, in order
  api,         \* in-process API promise in flight: "idle", "write", "read"
  apiCalls,    \* number of navigator.clipboard calls
  legacyCalls, \* number of offscreen elements created by legacyCopy
  spawns,      \* number of child processes spawned
  p1,          \* the primary utility's process of the current attempt
  p2,          \* the secondary utility's (xsel) process of the current attempt
  envChanges,  \* number of changes of navigator.clipboard so far
  opts,        \* the options argument of the call, as the caller passed it
  element,     \* the element handed to NowClipboard.cut
  cut,         \* performCut: the command's result, the harvested text, its promise
  earlier,     \* the call that came before the one in progress: its text, result, mechanisms
  overwritten, \* another application has written the clipboard since the first call
  itemApi,     \* isClipboardItemSupported(): navigator.clipboard.write and ClipboardItem exist
  image,       \* copyImage: the source, the blob, the writes made, its promise
  perm,        \* queryPermission: navigator.permissions.query present, the call, its promise
  support,     \* what NowClipboard.checkSupport returned: "none" before the call
  paste,       \* NowClipboard.onPaste: the listeners bound, the document's listener table, what was delivered
  em,          \* a NowClipboard instance: its _events, _destroyed, _listener, operations in flight
  page,        \* the document: offscreen elements now in the container, whether a selection exists
  hasDocument, \* typeof window and typeof document are not 'undefined' now (as _isBrowser found them at load)
  second,      \* the closure of a second call made while the first is under way
  log,         \* the calls made and the writes that reached the clipboard, in order
  inst         \* a click on an instance's trigger: the instance's retry settings, what the click resolved to, the events emitted for it

vars == <<isBrowser, isNode, platform, writeApi, readApi, now, clipboard, kind, arg,
          cfg, start, attempt, seq, caller, callerAt, tmo, bk, invocations, cur, delays,
          waits, api, apiCalls, legacyCalls, spawns, p1, p2, envChanges,
          opts,
          element,
          cut,
          earlier,
          overwritten,
          itemApi,
          image,
          perm,
          support,
          paste,
          em,
          page,
          hasDocument,
          second,
          log,
          inst>>

\* The whole state as one record, so that a handler is a function from state to
\* state and handlers compose the way the calls in the code nest.  ret is the
\* promise the innermost call returned (not part of the state).
W == [isBrowser |-> isBrowser, isNode |-> isNode, platform |-> platform,
      writeApi |-> writeApi, readApi |-> readApi, now |-> now,
      clipboard |-> clipboard, kind |-> kind, arg |-> arg, cfg |-> cfg,
      start |-> start, attempt |-> attempt, seq |-> seq, caller |-> caller,
      callerAt |-> callerAt, tmo |-> tmo, bk |-> bk, invocations |-> invocations,
      cur |-> cur, delays |-> delays, waits |-> waits, api |-> api,
      apiCalls |-> apiCalls, legacyCalls |-> legacyCalls, spawns |-> spawns,
      p1 |-> p1, p2 |-> p2,
      opts |-> opts,
      element |-> element,
      cut |-> cut,
      earlier |-> earlier,
      overwritten |-> overwritten,
      itemApi |-> itemApi,
      image |-> image,
      perm |-> perm,
      support |-> support,
      paste |-> paste,
      em |-> em,
      page |-> page,
      hasDocument |-> hasDocument,
      second |-> second,
      log |-> log,
      inst |-> inst,
      ret |-> Pending]

\* ------------------------------------------ the instance's event emitter
EventNames == {"success", "error"}

\* the listener functions a page registers: f and g do nothing to the
\* instance; emitter emits the event it is called for once more, unless it
\* runs inside such an emit already; remover calls off(event, f); destroyer
\* calls destroy(); thrower throws
ListenerFns == {"f", "g", "emitter", "remover", "destroyer", "thrower"}

\* EventEmitter.prototype.on / once: push { fn, ctx, once }
addListener(e, event, fn, once) ==
  [e EXCEPT !.events[event] = Append(@, [id |-> Len(e.count) + 1, fn |-> fn,
                                         once |-> once]),
            !.count = Append(@, [once |-> once, n |-> 0]),
            !.offed = @ \ {<<event, fn>>},
            !.thrown = FALSE]

\* the records of events that are not among those of toRemove
Remaining(events, toRemove) ==
  LET Stays(l) == l.id \notin toRemove IN SelectSeq(events, Stays)

\* EventEmitter.prototype.off(event, fn)
off(e, event, fn) ==
  LET NotFn(l) == l.fn # fn
  IN [e EXCEPT !.events[event] = SelectSeq(@, NotFn),
               !.offed = @ \cup {<<event, fn>>}]

\* EventEmitter.prototype.off(event): delete this._events[event]
offAll(e, event) ==
  [e EXCEPT !.events[event] = <<>>,
            !.offed = @ \cup {<<event, e.events[event][i].fn>> :
                                i \in 1..Len(e.events[event])}]

\* EventEmitter.prototype.removeAllListeners: this._events = {}
removeAllListeners(e) == [e EXCEPT !.events = [ev \in EventNames |-> <<>>]]

\* NowClipboard.prototype.destroy
destroy(e) ==
  IF e.destroyed THEN e
  ELSE removeAllListeners(
         [e EXCEPT !.destroyed = TRUE,
                   !.bound = FALSE,
                   !.unbinds = IF e.bound THEN @ + 1 ELSE @])

\* EventEmitter.prototype.emit(event).  A frame holds the array emit read
\* from _events at its start (events), its copy (listeners), the once
\* records seen so far (toRemove) and, for the properties, the pairs that
\* were in offed when it began.  An exception of a listener leaves the loop
\* and the frames around it at once.
RECURSIVE emit(_, _, _), emitLoop(_, _, _, _, _)

\* listeners[j].fn.apply(listeners[j].ctx, args)
invokeListener(e, event, l, frame, depth) ==
  LET e0 == [e EXCEPT !.count[l.id].n = @ + 1,
                      !.late = IF e.destroyed THEN @ + 1 ELSE @,
                      !.stale = IF <<event, l.fn>> \in frame.offed THEN @ + 1 ELSE @]
  IN IF l.fn = "emitter" /\ depth = 0 THEN emit(e0, event, depth + 1)
     ELSE IF l.fn = "remover" THEN off(e0, event, "f")
     ELSE IF l.fn = "destroyer" THEN destroy(e0)
     ELSE IF l.fn = "thrower" THEN [e0 EXCEPT !.thrown = TRUE]
     ELSE e0

emitLoop(e, event, frame, j, depth) ==
  IF j > Len(frame.listeners)
  THEN IF frame.toRemove = {} THEN e
       ELSE [e EXCEPT !.events[event] = Remaining(frame.events, frame.toRemove)]
  ELSE LET l == frame.listeners[j]
           e1 == invokeListener(e, event, l, frame, depth)
       IN IF e1.thrown THEN e1
          ELSE emitLoop(e1, event,
                        [frame EXCEPT !.toRemove = IF l.once THEN @ \cup {l.id} ELSE @],
                        j + 1, depth)

emit(e, event, depth) ==
  IF e.events[event] = <<>> THEN e
  ELSE emitLoop(e, event,
                [events |-> e.events[event], listeners |-> e.events[event],
                 toRemove |-> {}, offed |-> e.offed],
                1, depth)

\* ------------------------------------------- the instance's click handler
\* self.emit(event, ...) in onClick and in its promise callbacks
emitFrom(w, event) ==
  [w EXCEPT !.em = emit([w.em EXCEPT !.thrown = FALSE, !.emits = @ + 1], event, 0),
            !.inst.emitted = Append(@, event)]

\* operationPromise: what performCut returned, or what copyText,
\* copyFromElement or copyRichText returned
OperationPromise(w) == IF w.inst.branch = "cut" THEN w.cut.res ELSE w.caller

\* operationPromise.then(emit 'success').catch(emit 'error'): an exception
\* of a 'success' listener rejects the promise then() returned, and the
\* catch callback runs
onClickSettled(w) ==
  LET w0 == [w EXCEPT !.inst.st = "done"]
  IN IF OperationPromise(w).tag = "ok"
     THEN LET w1 == emitFrom(w0, "success")
          IN IF w1.em.thrown THEN emitFrom(w1, "error") ELSE w1
     ELSE emitFrom(w0, "error")

\* an emulation that forgets to clear the element
performCutThenKeeps(w) ==
  [w EXCEPT !.cut.st = "done", !.cut.res = w.caller]

\* the reaction performCut attaches to copyText's promise: on success the
\* element is cleared and the copied text passed on; a rejection passes
\* through
performCutThen(w) ==
  IF w.caller.tag = "ok"
  THEN [w EXCEPT !.element.content =
                    IF w.element.nodeName \in {"INPUT", "TEXTAREA"} THEN <<>>
                    ELSE IF w.element.contenteditable THEN <<>>
                    ELSE @,
                 !.cut.st = "done", !.cut.res = w.caller]
  ELSE [w EXCEPT !.cut.st = "done", !.cut.res = w.caller]

\* the promise copyImage returned follows the one retryOperation returned
\* from inside its then callback
copyImageThen(w) == [w EXCEPT !.image.st = "done", !.image.res = w.caller]

\* the reactions of the promises settled in this task run before it ends
operationReactions(w) ==
  IF w.cut.st = "copying" /\ w.caller.tag # "pending" THEN performCutThen(w)
  ELSE IF w.image.st = "writing" /\ w.caller.tag # "pending" THEN copyImageThen(w)
  ELSE w

\* then onClick's callbacks, when the operation of a click has settled
clickReactions(w) ==
  IF w.inst.st = "operating" /\ OperationPromise(w).tag # "pending"
  THEN onClickSettled(w)
  ELSE w

Reactions(w) == operationReactions(w)

\* the state a step leaves
Store(w) ==
  /\ isBrowser' = w.isBrowser /\ isNode' = w.isNode /\ platform' = w.platform
  /\ writeApi' = w.writeApi /\ readApi' = w.readApi /\ now' = w.now
  /\ clipboard' = w.clipboard /\ kind' = w.kind /\ arg' = w.arg /\ cfg' = w.cfg
  /\ start' = w.start /\ attempt' = w.attempt /\ seq' = w.seq
  /\ caller' = w.caller /\ callerAt' = w.callerAt /\ tmo' = w.tmo /\ bk' = w.bk
  /\ invocations' = w.invocations /\ cur' = w.cur /\ delays' = w.delays
  /\ waits' = w.waits /\ api' = w.api
  /\ apiCalls' = w.apiCalls /\ legacyCalls' = w.legacyCalls
  /\ spawns' = w.spawns /\ p1' = w.p1 /\ p2' = w.p2
  /\ envChanges' = envChanges
  /\ inst' = w.inst
  /\ log' = w.log
  /\ second' = w.second
  /\ hasDocument' = w.hasDocument
  /\ page' = w.page
  /\ em' = w.em
  /\ paste' = w.paste
  /\ support' = w.support
  /\ perm' = w.perm
  /\ image' = w.image
  /\ itemApi' = w.itemApi
  /\ overwritten' = w.overwritten
  /\ earlier' = w.earlier
  /\ cut' = w.cut
  /\ element' = w.element
  /\ opts' = w.opts

\* A step ends when the reactions it triggered have run.  inst.st becomes
\* "operating" in onClick only, whose action runs the callbacks of its own
\* step; every later step finds it in the state.
Apply(u) ==
  IF inst.st = "operating" THEN Store(clickReactions(Reactions(u)))
  ELSE Store(Reactions(u))

\* ------------------------------------------------------ capability tests
\* a copy() that forgot to validate its argument
_isStringAnything(a) == TRUE

_isString(a) == a.type \in {"string", "StringObject"}

\* a test that keeps the answer it gave to the attempt before
isClipboardAPIAvailableCached(w) ==
  w.isBrowser /\ (IF w.invocations = 0 THEN w.writeApi ELSE w.cur.seen)

isClipboardAPIAvailable(w) == w.isBrowser /\ w.writeApi

isReadAPIAvailable(w) == w.isBrowser /\ w.readApi

isClipboardItemSupported(w) == w.isBrowser /\ w.itemApi

\* ------------------------------------------------------- retry controller
\* `options || {}': undefined and the number 0 are falsy and become {}
EmptyObject == [type |-> "object", retries |-> Absent, retryDelay |-> Absent,
                timeout |-> Absent]

OrEmptyObject(options) ==
  IF options.type = "undefined" \/ (options.type = "number" /\ options.retries = 0)
  THEN EmptyObject
  ELSE options

\* the defaults taken with `||': a supplied 0 is lost
parseRetryConfigFalsy(options) ==
  IF options.type = "number"
  THEN [retries |-> options.retries, retryDelay |-> DefaultRetryDelay,
        timeout |-> DefaultTimeout]
  ELSE [retries |-> IF options.retries \notin {Absent, 0} THEN options.retries
                    ELSE DefaultRetries,
        retryDelay |-> IF options.retryDelay \notin {Absent, 0} THEN options.retryDelay
                       ELSE DefaultRetryDelay,
        timeout |-> IF options.timeout \notin {Absent, 0} THEN options.timeout
                    ELSE DefaultTimeout]

parseRetryConfig(options) ==
  IF options.type = "number"
  THEN [retries |-> options.retries, retryDelay |-> DefaultRetryDelay,
        timeout |-> DefaultTimeout]
  ELSE [retries |-> IF options.retries # Absent THEN options.retries ELSE DefaultRetries,
        retryDelay |-> IF options.retryDelay # Absent THEN options.retryDelay
                       ELSE DefaultRetryDelay,
        timeout |-> IF options.timeout # Absent THEN options.timeout ELSE DefaultTimeout]

\* an off-by-one in the exhaustion test: one attempt too few
RetriesExhaustedEarly(a, retries) == a >= retries

\* the `attempt > cfg.retries' test of tryOnce's catch handler
RetriesExhausted(a, retries) == a > retries

\* a linear backoff instead of the exponential one
BackoffDelayLinear(a, retryDelay) == a * retryDelay

\* the delay tryOnce hands to setTimeout after the a-th failure
BackoffDelay(a, retryDelay) == (2 ^ (a - 1)) * retryDelay

\* a timer for every timeout but 0
TimerWantedUnlessZero(ms) == ms # 0

\* withTimeout installs a timer unless `!ms || ms <= 0'
TimerWanted(ms) == ~(ms = 0 \/ ms <= 0)

\* the due time of withTimeout's timer, installed at time t
TimerDue(t, ms) == t + ms

\* index of the invocation of fn in progress
CurInv(w) == w.invocations

LogMech(w, m) == [w EXCEPT !.cur.mechs = Append(@, m)]

NoInvocation == [mechs |-> <<>>, seen |-> FALSE, apiRes |-> "none", res |-> Pending]

\* tryOnce calls fn(): mechs collects the mechanisms this invocation starts,
\* seen is whether the navigator.clipboard method the chain asks for
\* (writeText for copy, readText for read) was present when it began,
\* apiRes is how the in-process API call of this invocation ended
BeginInvocation(w) ==
  [w EXCEPT !.invocations = @ + 1,
            !.cur = [mechs |-> <<>>,
                     seen |-> IF w.kind = "copy" THEN w.writeApi ELSE w.readApi,
                     apiRes |-> "none", res |-> Pending],
            !.p1 = NoProc, !.p2 = NoProc]

\* a late settlement overwrites what the timer already told the caller
SeqSettleOverwrites(w, r) ==
  [w EXCEPT !.seq = r, !.caller = r, !.callerAt = w.now,
            !.tmo = IF @.st = "armed" THEN [@ EXCEPT !.st = "cleared"] ELSE @]

\* the promise tryOnce() returned settles with r: withTimeout's reactions run
\* (or, without a timer, the caller holds that very promise)
SeqSettle(w, r) ==
  IF ~TimerWanted(w.cfg.timeout)
  THEN [w EXCEPT !.seq = r, !.caller = r, !.callerAt = w.now]
  ELSE [w EXCEPT !.seq = r,
                 !.tmo = IF @.st = "armed" THEN [@ EXCEPT !.st = "cleared"] ELSE @,
                 !.caller = IF @.tag = "pending" THEN r ELSE @,
                 !.callerAt = IF w.caller.tag = "pending" THEN w.now ELSE @]

\* a controller that spends its retry budget before it reports: a success is
\* followed by a backoff wait and a new attempt while retries are left
OnAttemptSettledSpendsBudget(w) ==
  LET r == w.ret
      w1 == [w EXCEPT !.cur.res = r]
      a == w.attempt + 1
      w2 == [w1 EXCEPT !.attempt = a]
      delay == BackoffDelay(a, w.cfg.retryDelay)
  IN IF RetriesExhausted(a, w.cfg.retries)
     THEN SeqSettle(w2, r)
     ELSE [w2 EXCEPT !.bk = [armed |-> TRUE, due |-> w.now + delay,
                             setAt |-> w.now],
                     !.delays = Append(@, delay)]

\* the promise fn() returned settles with w.ret: tryOnce's reactions run
OnAttemptSettled(w) ==
  LET r == w.ret
      w1 == [w EXCEPT !.cur.res = r]
  IN IF r.tag = "ok"
     THEN SeqSettle(w1, r)
     ELSE LET a == w.attempt + 1
              w2 == [w1 EXCEPT !.attempt = a]
              delay == BackoffDelay(a, w.cfg.retryDelay)
          IN IF RetriesExhausted(a, w.cfg.retries)
             THEN SeqSettle(w2, r)
             ELSE [w2 EXCEPT !.bk = [armed |-> TRUE, due |-> w.now + delay,
                                     setAt |-> w.now],
                             !.delays = Append(@, delay)]

\* run the promise reactions if the call just made returned a settled promise
Settle(w) == IF w.ret.tag = "pending" THEN w ELSE OnAttemptSettled(w)

withTimeout(w, ms) ==
  IF ~TimerWanted(ms) THEN w
  ELSE [w EXCEPT !.tmo = [st |-> "armed", due |-> TimerDue(w.now, ms)]]

\* ------------------------------------------------------ write mechanisms
\* a then callback that returns nothing: the promise resolves with undefined
modernCopyThenNothing(w) == [w EXCEPT !.ret = Ok(<<>>)]

\* modernCopy's then callback: `return text'
modernCopyThen(w) == [w EXCEPT !.ret = Ok(w.arg.val)]

\* navigator.clipboard.writeText(text) is called; its promise is pending
modernCopy(w) ==
  [LogMech(w, "api") EXCEPT !.api = "write", !.apiCalls = @ + 1,
                            !.cur.apiRes = "pending", !.ret = Pending]

\* createOffscreenArea and containerEl.appendChild(fakeEl), then
\* selectText(fakeEl): one more offscreen element, and it is selected
appendOffscreen(w) ==
  [w EXCEPT !.legacyCalls = @ + 1, !.page.temps = @ + 1, !.page.selected = TRUE]

\* el.remove() and clearSelection()
removeOffscreen(w) ==
  [w EXCEPT !.page.temps = @ - 1, !.page.selected = FALSE]

\* document.execCommand('copy') inside try/catch: an exception counts as
\* false.  A command that succeeds has put the selected text on the clipboard.
execCommandCopy(w, text, exec) ==
  [w EXCEPT !.clipboard = IF exec = "true" THEN text ELSE @]

\* an execCommand outside any try block: its exception leaves legacyCopy
\* before the element is removed
legacyCopyUncaught(w, text, exec) ==
  LET w1 == appendOffscreen(LogMech(w, "legacy"))
      w2 == execCommandCopy(w1, text, exec)
  IN IF exec = "throw"
     THEN [w2 EXCEPT !.ret = Err("execCommand copy failed", 0, CurInv(w))]
     ELSE [removeOffscreen(w2) EXCEPT
             !.ret = IF exec = "true" THEN Ok(text)
                     ELSE Err("execCommand copy failed", 0, CurInv(w))]

\* legacyCopy: all synchronous.  exec is what document.execCommand returned
\* (or that it threw).
legacyCopy(w, text, exec) ==
  LET w1 == appendOffscreen(LogMech(w, "legacy"))
      w2 == execCommandCopy(w1, text, exec)
      w3 == removeOffscreen(w2)
  IN [w3 EXCEPT !.ret = IF exec = "true" THEN Ok(text)
                        ELSE Err("execCommand copy failed", 0, CurInv(w))]

\* ----------------------------------------------------- Node.js adapter
WriteCmd(pf) == IF pf = "win32" THEN "clip" ELSE IF pf = "darwin" THEN "pbcopy" ELSE "xclip"

WriteArgs(pf) ==
  IF pf = "win32" THEN <<>> ELSE IF pf = "darwin" THEN <<>>
  ELSE <<"-selection", "clipboard">>

ReadCmd(pf) ==
  IF pf = "win32" THEN "powershell" ELSE IF pf = "darwin" THEN "pbpaste" ELSE "xclip"

ReadArgs(pf) ==
  IF pf = "win32" THEN <<"-command", "Get-Clipboard">>
  ELSE IF pf = "darwin" THEN <<>>
  ELSE <<"-selection", "clipboard", "-o">>

\* the secondary utility offered on macOS as well
HasSecondaryNotWindows(pf) == pf # "win32"

\* the `platform !== 'win32' && platform !== 'darwin'' test of the error handlers
HasSecondary(pf) == pf # "win32" /\ pf # "darwin"

\* output.replace(/\n$/, ''): the carriage return stays
StripTrailingLineFeed(out) ==
  IF Len(out) >= 1 /\ out[Len(out)] = "\n"
  THEN SubSeq(out, 1, Len(out) - 1)
  ELSE out

\* output.replace(/\r?\n$/, '')
StripTrailingNewline(out) ==
  IF Len(out) >= 1 /\ out[Len(out)] = "\n"
  THEN IF Len(out) >= 2 /\ out[Len(out) - 1] = "\r"
       THEN SubSeq(out, 1, Len(out) - 2)
       ELSE SubSeq(out, 1, Len(out) - 1)
  ELSE out

Spawned(cmd, args, mode, text) ==
  [st |-> "running", finished |-> FALSE, events |-> <<>>, code |-> 0, cmd |-> cmd,
   args |-> args, mode |-> mode, stdin |-> text, output |-> <<>>, chunks |-> 0,
   emitted |-> <<>>]

\* spawn(cmd, args) either returns a child process or throws; sp says which
SpawnPrimary(w, cmd, args, mode, text, sp, throwMsg) ==
  LET w0 == LogMech(w, "primary")
  IN IF sp = "throw"
     THEN [w0 EXCEPT !.ret = Err(throwMsg, 0, CurInv(w))]
     ELSE [w0 EXCEPT !.p1 = Spawned(cmd, args, mode, text),
                     !.spawns = @ + 1,
                     !.ret = Pending]

nodeClipboardCopy(w, text, sp) ==
  IF ~w.isNode
  THEN [w EXCEPT !.ret = Err("Not running in Node.js environment", 0, CurInv(w))]
  ELSE SpawnPrimary(w, WriteCmd(w.platform), WriteArgs(w.platform), "write", text, sp,
                    "Failed to spawn clipboard process")

nodeClipboardRead(w, sp) ==
  IF ~w.isNode
  THEN [w EXCEPT !.ret = Err("Not running in Node.js environment", 0, CurInv(w))]
  ELSE SpawnPrimary(w, ReadCmd(w.platform), ReadArgs(w.platform), "read", <<>>, sp,
                    "Failed to spawn clipboard read process")

SpawnSecondary(w, args, mode, text, sp, throwMsg) ==
  LET w0 == LogMech(w, "secondary")
  IN IF sp = "throw"
     THEN [w0 EXCEPT !.ret = Err(throwMsg, 0, CurInv(w))]
     ELSE [w0 EXCEPT !.p2 = Spawned("xsel", args, mode, text),
                     !.spawns = @ + 1,
                     !.ret = Pending]

nodeClipboardCopyFallback(w, text, sp) ==
  SpawnSecondary(w, <<"--clipboard", "--input">>, "write", text, sp,
                 "Failed to spawn xsel")

nodeClipboardReadFallback(w, sp) ==
  SpawnSecondary(w, <<"--clipboard", "--output">>, "read", <<>>, sp,
                 "Failed to spawn xsel for read")

\* an 'error' handler that leaves the guard open: the primary utility can
\* still report while the secondary one runs
PrimaryOnErrorUnfinished(w, sp) ==
  LET w0 == [w EXCEPT !.p1.events = Append(@, "error"), !.p1.output = <<>>,
                      !.p1.chunks = 0]
  IN IF w.p1.finished THEN w0
     ELSE IF HasSecondary(w.platform)
     THEN IF w.p1.mode = "write"
          THEN nodeClipboardCopyFallback(w0, w.p1.stdin, sp)
          ELSE nodeClipboardReadFallback(w0, sp)
     ELSE [w0 EXCEPT !.p1.finished = TRUE,
                     !.ret =
                       Err(IF w.p1.mode = "write" THEN "Clipboard command failed"
                           ELSE "Clipboard read command failed", 0, CurInv(w))]

\* the primary process's 'error' handler.  Once finished is set no handler
\* reads the accumulated output again, so it is dropped.
PrimaryOnError(w, sp) ==
  LET w0 == [w EXCEPT !.p1.events = Append(@, "error"), !.p1.output = <<>>,
                      !.p1.chunks = 0]
  IN IF w.p1.finished THEN w0
     ELSE LET w1 == [w0 EXCEPT !.p1.finished = TRUE]
          IN IF HasSecondary(w.platform)
             THEN IF w.p1.mode = "write"
                  THEN nodeClipboardCopyFallback(w1, w.p1.stdin, sp)
                  ELSE nodeClipboardReadFallback(w1, sp)
             ELSE [w1 EXCEPT !.ret =
                     Err(IF w.p1.mode = "write" THEN "Clipboard command failed"
                         ELSE "Clipboard read command failed", 0, CurInv(w))]

\* a close handler that treats a failing exit like a failure to start
PrimaryOnCloseFallsBack(w, code) ==
  LET w0 == [w EXCEPT !.p1.events = Append(@, "close"), !.p1.st = "closed",
                      !.p1.code = IF w.p1.finished THEN @ ELSE code,
                      !.p1.output = <<>>, !.p1.chunks = 0,
                      !.clipboard = IF code = 0 /\ w.p1.mode = "write"
                                    THEN w.p1.stdin ELSE @]
  IN IF w.p1.finished THEN w0
     ELSE LET w1 == [w0 EXCEPT !.p1.finished = TRUE]
          IN IF code = 0
             THEN [w1 EXCEPT !.ret = IF w.p1.mode = "write" THEN Ok(w.p1.stdin)
                                     ELSE Ok(w.p1.output)]
             ELSE IF w.p1.mode = "write"
                  THEN nodeClipboardCopyFallback(w1, w.p1.stdin, "ok")
                  ELSE nodeClipboardReadFallback(w1, "ok")

\* the primary process's 'close' handler; a utility that exits with code 0
\* in write mode has stored its standard input in the system clipboard.  The
\* accumulated output is dropped with the handler's closure.
PrimaryOnClose(w, code) ==
  LET w0 == [w EXCEPT !.p1.events = Append(@, "close"), !.p1.st = "closed",
                      !.p1.code = IF w.p1.finished THEN @ ELSE code,
                      !.p1.output = <<>>, !.p1.chunks = 0,
                      !.clipboard = IF code = 0 /\ w.p1.mode = "write"
                                    THEN w.p1.stdin ELSE @]
  IN IF w.p1.finished THEN w0
     ELSE LET w1 == [w0 EXCEPT !.p1.finished = TRUE]
          IN IF code = 0
             THEN [w1 EXCEPT !.ret =
                     IF w.p1.mode = "write" THEN Ok(w.p1.stdin)
                     ELSE Ok(IF w.platform = "win32"
                             THEN StripTrailingNewline(w.p1.output)
                             ELSE w.p1.output)]
             ELSE [w1 EXCEPT !.ret =
                     Err(IF w.p1.mode = "write" THEN "Clipboard command exited with code"
                         ELSE "Clipboard read command exited with code",
                         code, CurInv(w))]

\* the xsel process's 'error' handler
SecondaryOnError(w) ==
  LET w0 == [w EXCEPT !.p2.events = Append(@, "error"), !.p2.output = <<>>,
                      !.p2.chunks = 0]
  IN IF w.p2.finished THEN w0
     ELSE [w0 EXCEPT !.p2.finished = TRUE,
                     !.ret = Err(IF w.p2.mode = "write"
                                 THEN "No clipboard command available"
                                 ELSE "No clipboard read command available",
                                 0, CurInv(w))]

\* a 'close' handler of xsel without the `finished' guard: it acts although
\* the 'error' handler has settled the promise
SecondaryOnCloseUnguarded(w, code) ==
  LET w0 == [w EXCEPT !.p2.events = Append(@, "close"), !.p2.st = "closed",
                      !.p2.code = code,
                      !.p2.output = <<>>, !.p2.chunks = 0,
                      !.clipboard = IF code = 0 /\ w.p2.mode = "write"
                                    THEN w.p2.stdin ELSE @]
      w1 == [w0 EXCEPT !.p2.finished = TRUE]
  IN IF code = 0
     THEN [w1 EXCEPT !.ret = IF w.p2.mode = "write" THEN Ok(w.p2.stdin)
                             ELSE Ok(w.p2.output)]
     ELSE [w1 EXCEPT !.ret =
             Err(IF w.p2.mode = "write" THEN "xsel exited with code"
                 ELSE "xsel read exited with code", code, CurInv(w))]

\* the xsel process's 'close' handler
SecondaryOnClose(w, code) ==
  LET w0 == [w EXCEPT !.p2.events = Append(@, "close"), !.p2.st = "closed",
                      !.p2.code = IF w.p2.finished THEN @ ELSE code,
                      !.p2.output = <<>>, !.p2.chunks = 0,
                      !.clipboard = IF code = 0 /\ w.p2.mode = "write"
                                    THEN w.p2.stdin ELSE @]
  IN IF w.p2.finished THEN w0
     ELSE LET w1 == [w0 EXCEPT !.p2.finished = TRUE]
          IN IF code = 0
             THEN [w1 EXCEPT !.ret = IF w.p2.mode = "write" THEN Ok(w.p2.stdin)
                                     ELSE Ok(w.p2.output)]
             ELSE [w1 EXCEPT !.ret =
                     Err(IF w.p2.mode = "write" THEN "xsel exited with code"
                         ELSE "xsel read exited with code", code, CurInv(w))]

\* ------------------------------------------------------------ the chains
\* the chain with the Node.js test ahead of the browser tests
copyTextFnNodeFirst(w, exec, sp) ==
  LET w0 == BeginInvocation(w)
  IN IF w.isNode THEN nodeClipboardCopy(w0, w.arg.val, sp)
     ELSE IF isClipboardAPIAvailable(w) THEN modernCopy(w0)
     ELSE IF w.isBrowser THEN legacyCopy(w0, w.arg.val, exec)
     ELSE [w0 EXCEPT !.ret =
             Err("No clipboard method available in this environment", 0, CurInv(w0))]

\* a retry that resumes at the tier that failed last: after the first
\* attempt the in-process API is not asked again
copyTextFnSkipsFailedTier(w, exec, sp) ==
  LET w0 == BeginInvocation(w)
  IN IF isClipboardAPIAvailable(w) /\ w.attempt = 0 THEN modernCopy(w0)
     ELSE IF w.isBrowser THEN legacyCopy(w0, w.arg.val, exec)
     ELSE IF w.isNode THEN nodeClipboardCopy(w0, w.arg.val, sp)
     ELSE [w0 EXCEPT !.ret =
             Err("No clipboard method available in this environment", 0, CurInv(w0))]

\* the operation copyText hands to retryOperation, up to its first suspension
copyTextFn(w, exec, sp) ==
  LET w0 == BeginInvocation(w)
  IN IF isClipboardAPIAvailable(w) THEN modernCopy(w0)
     ELSE IF w.isBrowser THEN legacyCopy(w0, w.arg.val, exec)
     ELSE IF w.isNode THEN nodeClipboardCopy(w0, w.arg.val, sp)
     ELSE [w0 EXCEPT !.ret =
             Err("No clipboard method available in this environment", 0, CurInv(w0))]

\* a catch handler without the execCommand fallback
copyTextOnApiFailureGivesUp(w, exec) ==
  [w EXCEPT !.ret =
     Err("Clipboard API failed and no fallback available", 0, CurInv(w))]

\* the catch handler copyText attaches to modernCopy
copyTextOnApiFailure(w, exec) ==
  IF w.isBrowser THEN legacyCopy(w, w.arg.val, exec)
  ELSE [w EXCEPT !.ret =
          Err("Clipboard API failed and no fallback available", 0, CurInv(w))]

\* a read chain that asks the Node.js test first
readTextFnNodeFirst(w, sp) ==
  LET w0 == BeginInvocation(w)
  IN IF w.isNode THEN nodeClipboardRead(w0, sp)
     ELSE IF isReadAPIAvailable(w)
     THEN [LogMech(w0, "api") EXCEPT !.api = "read", !.apiCalls = @ + 1,
                                     !.cur.apiRes = "pending", !.ret = Pending]
     ELSE [w0 EXCEPT !.ret =
             Err("Clipboard read not supported in this environment", 0, CurInv(w0))]

\* the operation readText hands to retryOperation
readTextFn(w, sp) ==
  LET w0 == BeginInvocation(w)
  IN IF isReadAPIAvailable(w)
     THEN [LogMech(w0, "api") EXCEPT !.api = "read", !.apiCalls = @ + 1,
                                     !.cur.apiRes = "pending", !.ret = Pending]
     ELSE IF w.isNode THEN nodeClipboardRead(w0, sp)
     ELSE [w0 EXCEPT !.ret =
             Err("Clipboard read not supported in this environment", 0, CurInv(w0))]

\* the deadline restarted by every attempt instead of covering the sequence
tryOnceRestartsTimer(w, exec, sp) ==
  LET w1 == IF w.kind = "copy" THEN copyTextFn(w, exec, sp) ELSE readTextFn(w, sp)
  IN [w1 EXCEPT !.tmo = IF @.st = "armed"
                        THEN [@ EXCEPT !.due = TimerDue(w.now, w.cfg.timeout)]
                        ELSE @]

\* the blob fetchImageBlob produces on its k-th run
BlobOf(k) == [i \in 1..k |-> "blob"]

\* an operation that normalizes the source again on every attempt
copyImageFnRefetches(w) ==
  LET w0 == [BeginInvocation(w) EXCEPT !.image.normalized = @ + 1,
                                       !.image.blob = BlobOf(w.image.normalized + 1)]
  IN [LogMech(w0, "item") EXCEPT !.api = "item", !.apiCalls = @ + 1,
                                 !.cur.apiRes = "pending",
                                 !.image.writes = Append(@, w0.image.blob),
                                 !.ret = Pending]

\* the operation copyImage hands to retryOperation: copyImageBlob(blob,
\* blob.type) calls navigator.clipboard.write([item]); its promise is pending
copyImageFn(w) ==
  LET w0 == BeginInvocation(w)
  IN [LogMech(w0, "item") EXCEPT !.api = "item", !.apiCalls = @ + 1,
                                 !.cur.apiRes = "pending",
                                 !.image.writes = Append(@, w.image.blob),
                                 !.ret = Pending]

\* copyRichTextLegacy: the markup goes into an offscreen element, which is
\* appended, selected, copied with execCommand('copy') and removed; all
\* synchronous
copyRichTextLegacy(w, exec) ==
  LET w1 == appendOffscreen(LogMech(w, "legacy"))
      w2 == execCommandCopy(w1, w.arg.val, exec)
      w3 == removeOffscreen(w2)
  IN [w3 EXCEPT !.ret = IF exec = "true" THEN Ok(w.arg.val)
                        ELSE Err("execCommand copy failed for rich text", 0,
                                 CurInv(w))]

\* the operation copyRichText hands to retryOperation, up to its first
\* suspension: navigator.clipboard.write([item]) when ClipboardItem is
\* supported, else the legacy copy
copyRichTextFn(w, exec) ==
  LET w0 == BeginInvocation(w)
  IN IF isClipboardItemSupported(w)
     THEN [LogMech(w0, "item") EXCEPT !.api = "rich", !.apiCalls = @ + 1,
                                      !.cur.apiRes = "pending", !.ret = Pending]
     ELSE copyRichTextLegacy(w0, exec)

\* legacyCopyFromElement: execCommand('copy') on the selected element, and
\* legacyCopy of its text when that fails; exec is what execCommand('copy')
\* does
legacyCopyFromElement(w, exec) ==
  LET w0 == [LogMech(w, "selection") EXCEPT !.page.selected = TRUE]
  IN IF exec = "true"
     THEN [w0 EXCEPT !.clipboard = w.arg.val, !.ret = Ok(w.arg.val)]
     ELSE legacyCopy(w0, w.arg.val, exec)

\* the operation copyFromElement hands to retryOperation, up to its first
\* suspension: selectText(element), then the API or the legacy copy
copyFromElementFn(w, exec) ==
  LET w0 == [BeginInvocation(w) EXCEPT !.page.selected = TRUE]
  IN IF isClipboardAPIAvailable(w) THEN modernCopy(w0)
     ELSE legacyCopyFromElement(w0, exec)

tryOnce(w, exec, sp) ==
  IF w.kind = "copy" THEN copyTextFn(w, exec, sp)
  ELSE IF w.kind = "read" THEN readTextFn(w, sp)
  ELSE IF w.kind = "rich" THEN copyRichTextFn(w, exec)
  ELSE IF w.kind = "element" THEN copyFromElementFn(w, exec)
  ELSE copyImageFn(w)

retryOperation(w, config, exec, sp) ==
  LET w0 == [w EXCEPT !.cfg = parseRetryConfig(config), !.attempt = 0,
                      !.start = w.now]
      w1 == tryOnce(w0, exec, sp)
      w2 == withTimeout(w1, w0.cfg.timeout)
  IN Settle(w2)

copyText(w, text, options, exec, sp) ==
  retryOperation([w EXCEPT !.kind = "copy", !.arg = text, !.opts = options],
                 OrEmptyObject(options), exec, sp)

readText(w, options, exec, sp) ==
  retryOperation([w EXCEPT !.kind = "read", !.opts = options],
                 OrEmptyObject(options), exec, sp)

\* the options argument left out
Undefined == [type |-> "undefined", retries |-> Absent, retryDelay |-> Absent,
              timeout |-> Absent]

_isElement(val) == val.nodeType = 1

\* selectText selects the element's content and returns it: the value of a
\* SELECT, INPUT or TEXTAREA, else the text of the selection
selectText(e) == e.content

\* an emulation that clears the element before the copy has resolved
performCutClearsFirst(w, e, cmd, exec) ==
  LET text == selectText(e)
      w0 == [w EXCEPT !.element = e, !.page.selected = TRUE,
                      !.cut = [st |-> "none", cmd |-> cmd, text |-> text,
                               res |-> Pending]]
  IN IF cmd = "true"
     THEN [w0 EXCEPT !.element.content = <<>>, !.clipboard = text,
                     !.cut.st = "done", !.cut.res = Ok(text)]
     ELSE copyText([w0 EXCEPT !.cut.st = "copying", !.element.content = <<>>],
                   [type |-> "string", val |-> text], Undefined, exec, "ok")

\* performCut; cmd is what document.execCommand('cut') returned (or that it
\* threw), exec what the fallback's first execCommand('copy') does.  A cut
\* command that succeeds has moved the selected content to the clipboard.
performCut(w, e, cmd, exec) ==
  LET text == selectText(e)
      w0 == [w EXCEPT !.element = e, !.page.selected = TRUE,
                      !.cut = [st |-> "none", cmd |-> cmd, text |-> text,
                               res |-> Pending]]
  IN IF cmd = "true"
     THEN [w0 EXCEPT !.element.content = <<>>, !.clipboard = text,
                     !.cut.st = "done", !.cut.res = Ok(text)]
     ELSE copyText([w0 EXCEPT !.cut.st = "copying"],
                   [type |-> "string", val |-> text], Undefined, exec, "ok")

\* the sources fetchImageBlob tells apart: a Blob, a canvas, an image
\* element with or without src, a URL string, anything else
ImageSources == {"Blob", "canvas", "img", "img without src", "url", "other"}

\* fetchImageBlob's then callback in copyImage: the blob is there and
\* retryOperation begins
copyImageWrite(w, options) ==
  retryOperation([w EXCEPT !.image.st = "writing",
                           !.image.blob = BlobOf(w.image.normalized)],
                 options, "true", "ok")

\* copyImage: fetchImageBlob(source) runs once; a Blob is passed through, a
\* source of no known type or an image without src is rejected at once, the
\* others are fetched or rasterized and their promise is pending
copyImage(w, source, options) ==
  LET w0 == [w EXCEPT !.opts = options,
                      !.image = [NoImage EXCEPT !.source = source, !.normalized = 1]]
  IN IF source = "Blob" THEN copyImageWrite(w0, options)
     ELSE IF source = "other"
     THEN [w0 EXCEPT !.image.st = "done",
                     !.image.res = Err("TypeError: Unsupported image source type", 0, 0)]
     ELSE IF source = "img without src"
     THEN [w0 EXCEPT !.image.st = "done",
                     !.image.res = Err("Image element has no src", 0, 0)]
     ELSE [w0 EXCEPT !.image.st = "normalizing"]

\* ------------------------------------------------------------- actions
NoArg == [type |-> "undefined", val |-> <<>>]

\* no call has been made yet
NoOptions == [type |-> "none", retries |-> Absent, retryDelay |-> Absent,
              timeout |-> Absent]

\* What belongs to one call of copyText: the closure of retryOperation (cfg,
\* attempt), the promises of tryOnce and withTimeout, their timers, and the
\* mechanisms the call has in flight.  Before the call:
NoCall ==
  [kind |-> "none", arg |-> NoArg, cfg |-> parseRetryConfig(EmptyObject), start |-> 0,
   attempt |-> 0, seq |-> Pending, caller |-> Pending, callerAt |-> 0 - 1,
   tmo |-> NoTimer, bk |-> NoBackoff, invocations |-> 0, cur |-> NoInvocation,
   delays |-> <<>>, waits |-> <<>>, api |-> "idle", p1 |-> NoProc, p2 |-> NoProc,
   opts |-> NoOptions]

Init ==
  /\ isBrowser \in BOOLEAN
  /\ isNode \in BOOLEAN
  /\ platform \in (IF isNode THEN Platforms ELSE {"none"})
  /\ writeApi \in BOOLEAN
  /\ readApi \in BOOLEAN
  /\ now = 0
  /\ clipboard = <<"z">>
  /\ kind = "none"
  /\ arg = NoArg
  /\ cfg = parseRetryConfig(EmptyObject)
  /\ start = 0
  /\ attempt = 0
  /\ seq = Pending
  /\ caller = Pending
  /\ callerAt = -1
  /\ tmo = NoTimer
  /\ bk = NoBackoff
  /\ invocations = 0
  /\ cur = NoInvocation
  /\ delays = <<>>
  /\ waits = <<>>
  /\ api = "idle"
  /\ apiCalls = 0
  /\ legacyCalls = 0
  /\ spawns = 0
  /\ p1 = NoProc
  /\ p2 = NoProc
  /\ envChanges = 0
  /\ inst = NoClick
  /\ log = <<>>
  /\ second = NoCall
  /\ hasDocument = isBrowser
  /\ page = NoTemps
  /\ em = NoInstance
  /\ paste = NoPaste
  /\ support = "none"
  /\ perm = NoPermission
  /\ image = NoImage
  /\ itemApi = FALSE
  /\ overwritten = FALSE
  /\ earlier = NoEarlier
  /\ cut = NoCut
  /\ element = NoElement
  /\ opts = NoOptions

\* NowClipboard.copy(text, options)
Copy ==
  /\ kind = "none"
  /\ \E a \in CopyArgs, o \in OptionValues, exec \in ExecResults, sp \in SpawnResults :
       IF ~_isString(a)
       THEN Apply([W EXCEPT !.kind = "copy", !.arg = a, !.start = now,
                            !.caller = Err("TypeError: copy() expects a string argument",
                                           0, 0),
                            !.callerAt = now])
       ELSE Apply(copyText(W, a, o, exec, sp))

\* NowClipboard.read(options)
Read ==
  /\ kind = "none"
  /\ \E o \in OptionValues, sp \in SpawnResults :
       Apply(readText(W, o, "true", sp))

\* navigator.clipboard.writeText's promise resolves: the text is on the clipboard
ApiWriteResolve ==
  /\ api = "write"
  /\ Apply(Settle(modernCopyThen([W EXCEPT !.api = "idle", !.cur.apiRes = "ok",
                                           !.clipboard = arg.val])))

\* the catch handler attached to modernCopy: copyText's, or
\* copyFromElement's, which clears the selection and copies from the element
onWriteRejected(w, exec) ==
  IF w.kind = "element"
  THEN legacyCopyFromElement([w EXCEPT !.page.selected = FALSE], exec)
  ELSE copyTextOnApiFailure(w, exec)

\* navigator.clipboard.writeText's promise rejects
ApiWriteReject ==
  /\ api = "write"
  /\ \E exec \in ExecResults :
       Apply(Settle(onWriteRejected([W EXCEPT !.api = "idle",
                                              !.cur.apiRes = "rejected"],
                                    exec)))

\* navigator.clipboard.readText's promise resolves with the clipboard's text
ApiReadResolve ==
  /\ api = "read"
  /\ Apply(Settle([W EXCEPT !.api = "idle", !.cur.apiRes = "ok",
                            !.ret = Ok(clipboard)]))

ApiReadReject ==
  /\ api = "read"
  /\ Apply(Settle([W EXCEPT !.api = "idle", !.cur.apiRes = "rejected",
                            !.ret = Err("readText rejected", 0, CurInv(W))]))

\* the primary child process emits 'error'
P1Error ==
  /\ p1.st # "none"
  /\ \A i \in 1..Len(p1.events) : p1.events[i] # "error"
  /\ \E sp \in SpawnResults : Apply(Settle(PrimaryOnError(W, sp)))

\* the primary child process emits 'close'; a process that never started
\* (its 'error' came first) does not report exit code 0
P1Close ==
  /\ p1.st = "running"
  /\ \E code \in ExitCodes :
       /\ p1.events # <<>> => code # 0
       /\ Apply(Settle(PrimaryOnClose(W, code)))

\* the primary child process writes a chunk to its standard output: the
\* 'data' handler appends it
P1Data ==
  /\ p1.st = "running" /\ p1.mode = "read" /\ ~p1.finished
  /\ p1.chunks < MaxChunks
  /\ \E ch \in Chunks :
       Apply([W EXCEPT !.p1.output = @ \o ch, !.p1.chunks = @ + 1])

P2Error ==
  /\ p2.st # "none"
  /\ \A i \in 1..Len(p2.events) : p2.events[i] # "error"
  /\ Apply(Settle(SecondaryOnError(W)))

P2Close ==
  /\ p2.st = "running"
  /\ \E code \in ExitCodes :
       /\ p2.events # <<>> => code # 0
       /\ Apply(Settle(SecondaryOnClose(W, code)))

P2Data ==
  /\ p2.st = "running" /\ p2.mode = "read" /\ ~p2.finished
  /\ p2.chunks < MaxChunks
  /\ \E ch \in Chunks :
       Apply([W EXCEPT !.p2.output = @ \o ch, !.p2.chunks = @ + 1])

\* the backoff timer of tryOnce fires: `.then(tryOnce)'
BackoffFire ==
  /\ bk.armed /\ bk.due <= now
  /\ \E exec \in ExecResults, sp \in SpawnResults :
       Apply(Settle(tryOnce([W EXCEPT !.bk = NoBackoff,
                                      !.waits = Append(@, now - bk.setAt)],
                            exec, sp)))

\* a timer that cancels what it abandons: the utility processes are killed
TimeoutFireKills ==
  /\ tmo.st = "armed" /\ tmo.due <= now
  /\ Apply([W EXCEPT !.tmo.st = "fired",
                     !.caller = Err("Operation timed out", cfg.timeout, 0),
                     !.callerAt = now,
                     !.p1 = NoProc, !.p2 = NoProc])

\* withTimeout's timer fires
TimeoutFire ==
  /\ tmo.st = "armed" /\ tmo.due <= now
  /\ Apply([W EXCEPT !.tmo.st = "fired",
                     !.caller = Err("Operation timed out", cfg.timeout, 0),
                     !.callerAt = now])

\* a polyfill installs or removes the navigator.clipboard method the call
\* consults; the code looks at it only when tryOnce invokes the operation, so
\* only a change between two attempts is followed
EnvChange ==
  /\ envChanges < MaxEnvChanges
  /\ bk.armed
  /\ envChanges' = envChanges + 1
  /\ \/ kind = "copy" /\ writeApi' = ~writeApi /\ readApi' = readApi
     \/ kind = "read" /\ readApi' = ~readApi /\ writeApi' = writeApi
  /\ UNCHANGED <<isBrowser, isNode, platform, now, clipboard, kind, arg,
                 cfg, start, attempt, seq, caller, callerAt, tmo, bk, invocations,
                 cur, delays, waits, api, apiCalls, legacyCalls, spawns, p1, p2,
                 opts,
                 element,
                 cut,
                 earlier,
                 overwritten,
                 itemApi,
                 image,
                 perm,
                 support,
                 paste,
                 em,
                 page,
                 hasDocument,
                 second,
                 log,
                 inst>>

\* a timer is pending
TimerPending == bk.armed \/ tmo.st = "armed"

\* time passes; no timer is overdue.  The program reads the clock only
\* through its timers, so time is followed only while one is pending.
Tick ==
  /\ now < MaxTime
  /\ TimerPending
  /\ ~(bk.armed /\ bk.due <= now)
  /\ ~(tmo.st = "armed" /\ tmo.due <= now)
  /\ Apply([W EXCEPT !.now = @ + 1])

Next ==
  \/ Copy \/ Read
  \/ ApiWriteResolve \/ ApiWriteReject \/ ApiReadResolve \/ ApiReadReject
  \/ P1Error \/ P1Close \/ P1Data \/ P2Error \/ P2Close \/ P2Data
  \/ BackoffFire \/ TimeoutFire \/ EnvChange \/ Tick

Spec == Init /\ [][Next]_vars

\* ------------------------------------ the retry configuration in a page
\* A browser page (no Node.js), called with every shape of options, among
\* them a timeout below zero (Absent being -1, -2 stands for it).  The
\* default retry delay is far beyond MaxTime, so here time is followed by
\* jumps: to the due time of the next timer, or, with no timer pending, by
\* the time a slow answer of navigator.clipboard takes.
ConfigOptionValues ==
  OptionValues
  \cup {[type |-> "object", retries |-> 1, retryDelay |-> 2, timeout |-> 0 - 2]}

SlowAnswer == 10 * DefaultRetryDelay

InitOptions == Init /\ isBrowser /\ ~isNode

\* NowClipboard.copy(text, options) with a string
CopyWith ==
  /\ kind = "none"
  /\ \E a \in StringArgs, o \in ConfigOptionValues, exec \in ExecResults :
       Apply(copyText(W, a, o, exec, "ok"))

\* NowClipboard.read(options)
ReadWith ==
  /\ kind = "none"
  /\ \E o \in ConfigOptionValues : Apply(readText(W, o, "true", "ok"))

PendingDues ==
  (IF bk.armed THEN {bk.due} ELSE {}) \cup (IF tmo.st = "armed" THEN {tmo.due} ELSE {})

\* time passes up to the next timer; with no timer pending, a call of
\* navigator.clipboard in flight takes its time
Elapse ==
  /\ \A d \in PendingDues : d > now
  /\ IF PendingDues # {}
     THEN Apply([W EXCEPT !.now = CHOOSE d \in PendingDues :
                                    \A e \in PendingDues : d <= e])
     ELSE /\ api # "idle"
          /\ now < SlowAnswer
          /\ Apply([W EXCEPT !.now = @ + SlowAnswer])

NextOptions ==
  \/ CopyWith \/ ReadWith
  \/ ApiWriteResolve \/ ApiWriteReject \/ ApiReadResolve \/ ApiReadReject
  \/ BackoffFire \/ TimeoutFire \/ Elapse

SpecOptions == InitOptions /\ [][NextOptions]_vars

\* ------------------------------------- the adapter's read, chunk by chunk
\* NowClipboard.read({retries: 0}) without a document under Node.js, the
\* utility writing up to MaxChunks + 1 chunks, each of them logged.
InitAdapterRead == Init /\ ~isBrowser /\ isNode

ReadHeadless ==
  /\ kind = "none"
  /\ \E sp \in SpawnResults :
       Apply(readText(W, [type |-> "object", retries |-> 0, retryDelay |-> Absent,
                          timeout |-> Absent], "true", sp))

\* the 'data' handler of the primary process: output += chunk.toString()
P1Emit ==
  /\ p1.st = "running" /\ p1.mode = "read" /\ ~p1.finished
  /\ p1.chunks < MaxChunks + 1
  /\ \E ch \in Chunks :
       Apply([W EXCEPT !.p1.output = @ \o ch, !.p1.chunks = @ + 1,
                       !.p1.emitted = Append(@, ch)])

\* the 'data' handler of the xsel process
P2Emit ==
  /\ p2.st = "running" /\ p2.mode = "read" /\ ~p2.finished
  /\ p2.chunks < MaxChunks + 1
  /\ \E ch \in Chunks :
       Apply([W EXCEPT !.p2.output = @ \o ch, !.p2.chunks = @ + 1,
                       !.p2.emitted = Append(@, ch)])

NextAdapterRead ==
  \/ ReadHeadless
  \/ P1Emit \/ P1Error \/ P1Close
  \/ P2Emit \/ P2Error \/ P2Close

SpecAdapterRead == InitAdapterRead /\ [][NextAdapterRead]_vars

\* ------------------------------------------------- a copy and then a read
\* A page calls NowClipboard.copy and, once its promise has resolved,
\* NowClipboard.read; other applications may write the clipboard meanwhile.
InitRoundTrip == Init /\ isBrowser /\ ~isNode

\* the options of the two calls: none, or one retry under a deadline
RoundTripOptions ==
  {Undefined, [type |-> "object", retries |-> 1, retryDelay |-> 1, timeout |-> 3]}

\* NowClipboard.copy(text, options), the first call
CopyFirst ==
  /\ kind = "none"
  /\ \E a \in StringArgs, o \in RoundTripOptions, exec \in ExecResults :
       Apply(copyText(W, a, o, exec, "ok"))

\* the state a new call starts from once the call before it has resolved:
\* that call has left no timer, no API call and no process behind
NextCall(w) ==
  [w EXCEPT !.earlier = [text |-> w.arg.val, res |-> w.caller, mechs |-> w.cur.mechs],
            !.seq = Pending, !.caller = Pending, !.callerAt = 0 - 1,
            !.tmo = NoTimer, !.attempt = 0, !.invocations = 0, !.cur = NoInvocation,
            !.delays = <<>>, !.waits = <<>>]

\* NowClipboard.read(options), called after the copy has resolved
ReadAfterCopy ==
  /\ kind = "copy" /\ caller.tag = "ok"
  /\ \E o \in RoundTripOptions : Apply(readText(NextCall(W), o, "true", "ok"))

\* another application puts a text of its own on the clipboard
OtherWrite ==
  /\ kind # "none"
  /\ \E t \in Texts \cup {<<"z">>} :
       /\ t # clipboard
       /\ Apply([W EXCEPT !.clipboard = t, !.overwritten = TRUE])

NextRoundTrip ==
  \/ CopyFirst \/ ReadAfterCopy \/ OtherWrite
  \/ ApiWriteResolve \/ ApiWriteReject \/ ApiReadResolve \/ ApiReadReject
  \/ BackoffFire \/ TimeoutFire \/ Elapse

SpecRoundTrip == InitRoundTrip /\ [][NextRoundTrip]_vars

\* ------------------------------------------------ NowClipboard.copyImage
InitImage == Init /\ ~isNode

\* the options of copyImage: none, or an object with or without a deadline
ImageOptions ==
  {Undefined}
  \cup {[type |-> "object", retries |-> n, retryDelay |-> 1, timeout |-> t] :
          n \in 0..MaxRetries, t \in Timeouts}

\* before the call: the page's browser has navigator.clipboard.write and
\* ClipboardItem, or a script removes them
ItemApiChange ==
  /\ kind = "none"
  /\ Apply([W EXCEPT !.itemApi = ~@])

\* NowClipboard.copyImage(source, options)
CopyImage ==
  /\ kind = "none"
  /\ \E source \in ImageSources, o \in ImageOptions :
       IF ~isBrowser
       THEN Apply([W EXCEPT
              !.kind = "image", !.opts = o,
              !.image = [NoImage EXCEPT
                 !.source = source, !.st = "done",
                 !.res = Err("NowClipboard.copyImage() is only available in browser environment",
                             0, 0)]])
       ELSE IF ~isClipboardItemSupported(W)
       THEN Apply([W EXCEPT
              !.kind = "image", !.opts = o,
              !.image = [NoImage EXCEPT
                 !.source = source, !.st = "done",
                 !.res = Err("ClipboardItem API not supported", 0, 0)]])
       ELSE Apply(copyImage([W EXCEPT !.kind = "image"], source, o))

\* the fetch or the rasterization delivers the blob
NormalizeResolve ==
  /\ image.st = "normalizing"
  /\ Apply(copyImageWrite(W, opts))

\* the fetch fails (network, CORS, a status that is not ok) or the canvas
\* cannot be rasterized
NormalizeReject ==
  /\ image.st = "normalizing"
  /\ Apply([W EXCEPT
         !.image.st = "done",
         !.image.res = Err(IF image.source = "canvas" THEN "Canvas toBlob returned null"
                           ELSE IF image.source = "img"
                           THEN "Failed to fetch image (CORS?)"
                           ELSE "Failed to fetch image URL (CORS?)", 0, 0)])

\* navigator.clipboard.write's promise resolves: copyImageBlob's then
\* callback returns the blob
ApiItemResolve ==
  /\ api = "item"
  /\ Apply(Settle([W EXCEPT !.api = "idle", !.cur.apiRes = "ok",
                            !.clipboard = image.blob, !.ret = Ok(image.blob)]))

\* navigator.clipboard.write's promise rejects
ApiItemReject ==
  /\ api = "item"
  /\ Apply(Settle([W EXCEPT !.api = "idle", !.cur.apiRes = "rejected",
                            !.ret = Err("write rejected", 0, CurInv(W))]))

NextImage ==
  \/ ItemApiChange \/ CopyImage \/ NormalizeResolve \/ NormalizeReject
  \/ ApiItemResolve \/ ApiItemReject
  \/ BackoffFire \/ TimeoutFire \/ Elapse

SpecImage == InitImage /\ [][NextImage]_vars

\* ------------------------------------------------------ NowClipboard.cut
NodeNames == {"INPUT", "TEXTAREA", "SELECT", "DIV"}

Elements ==
  {[nodeType |-> 1, nodeName |-> n, contenteditable |-> c, content |-> t] :
     n \in NodeNames, c \in BOOLEAN, t \in Texts}

\* a text node: an object, but no element
NotElements ==
  {[nodeType |-> 3, nodeName |-> "#text", contenteditable |-> FALSE, content |-> t] :
     t \in Texts}

\* the browser's cut command acts on editable content only
CutCommandMayAct(e) == e.nodeName \in {"INPUT", "TEXTAREA"} \/ e.contenteditable

InitCut == Init /\ ~isNode

\* NowClipboard.cut(element)
Cut ==
  /\ kind = "none"
  /\ \E e \in Elements \cup NotElements, cmd \in ExecResults, exec \in ExecResults :
       IF ~isBrowser
       THEN Apply([W EXCEPT
              !.kind = "cut",
              !.cut = [NoCut EXCEPT
                         !.st = "done",
                         !.res = Err("NowClipboard.cut() is only available in browser environment",
                                     0, 0)]])
       ELSE IF ~_isElement(e)
       THEN Apply([W EXCEPT
              !.kind = "cut",
              !.cut = [NoCut EXCEPT
                         !.st = "done",
                         !.res = Err("TypeError: cut() expects an HTMLElement argument",
                                     0, 0)]])
       ELSE /\ cmd = "true" => CutCommandMayAct(e)
            /\ Apply(performCut([W EXCEPT !.kind = "cut"], e, cmd, exec))

NextCut ==
  \/ Cut
  \/ ApiWriteResolve \/ ApiWriteReject
  \/ BackoffFire \/ Elapse

SpecCut == InitCut /\ [][NextCut]_vars

\* ------------------------------------- mechanisms that throw, in a page
\* A mechanism may raise an exception instead of returning a promise:
\* navigator.clipboard.writeText itself, or legacyCopy's
\* containerEl.appendChild while document.body is still null.  A call that
\* ends so returns no promise: caller holds the exception, tagged "thrown".
Thrown(m, i) == [tag |-> "thrown", msg |-> m, code |-> 0, inv |-> i, text |-> <<>>]

modernCopyThrows(w) ==
  [LogMech(w, "api") EXCEPT !.apiCalls = @ + 1,
                            !.ret = Thrown("writeText threw", CurInv(w))]

legacyCopyThrows(w) ==
  [LogMech(w, "legacy") EXCEPT
     !.legacyCalls = @ + 1,
     !.ret = Thrown("TypeError: containerEl is null", CurInv(w))]

\* copyText's operation in a page when the mechanism it picks throws
copyTextFnThrows(w) ==
  LET w0 == BeginInvocation(w)
  IN IF isClipboardAPIAvailable(w) THEN modernCopyThrows(w0) ELSE legacyCopyThrows(w0)

\* retryOperation when the first fn() throws: the exception leaves tryOnce
\* while the argument of withTimeout is evaluated, so no timer is installed
\* and the exception leaves retryOperation, copyText and NowClipboard.copy
retryOperationThrows(w, config) ==
  LET w0 == [w EXCEPT !.cfg = parseRetryConfig(config), !.attempt = 0,
                      !.start = w.now]
      w1 == copyTextFnThrows(w0)
  IN [w1 EXCEPT !.cur.res = w1.ret, !.caller = w1.ret, !.callerAt = w.now]

\* the exception as the reason of a rejected promise
AsRejection(t) == Err(t.msg, t.code, t.inv)

InitThrow == Init /\ isBrowser /\ ~isNode

\* NowClipboard.copy(text, options) whose first attempt's mechanism throws
CopyThrows ==
  /\ kind = "none"
  /\ \E a \in StringArgs, o \in OptionValues :
       Apply(retryOperationThrows([W EXCEPT !.kind = "copy", !.arg = a, !.opts = o],
                                  OrEmptyObject(o)))

\* writeText's promise rejects and legacyCopy throws inside copyText's catch
\* handler: the handler's promise rejects with the exception, which
\* tryOnce's catch handler treats like any failed attempt
ApiWriteRejectThrows ==
  /\ api = "write"
  /\ LET w1 == legacyCopyThrows([W EXCEPT !.api = "idle", !.cur.apiRes = "rejected"])
     IN Apply(Settle([w1 EXCEPT !.ret = AsRejection(w1.ret)]))

\* the backoff timer fires and fn() throws inside `.then(tryOnce)': that
\* promise rejects with the exception and no catch handler is attached to
\* it, so the sequence rejects without counting the attempt
BackoffFireThrows ==
  /\ bk.armed /\ bk.due <= now
  /\ LET w1 == copyTextFnThrows([W EXCEPT !.bk = NoBackoff,
                                          !.waits = Append(@, now - bk.setAt)])
         e == AsRejection(w1.ret)
     IN Apply(SeqSettle([w1 EXCEPT !.cur.res = e], e))

NextThrow ==
  \/ CopyWith \/ CopyThrows
  \/ ApiWriteResolve \/ ApiWriteReject \/ ApiWriteRejectThrows
  \/ BackoffFire \/ BackoffFireThrows \/ TimeoutFire \/ Tick

SpecThrow == InitThrow /\ [][NextThrow]_vars

\* ------------------------------------------------- the permission query
PermissionStates == {"granted", "denied", "prompt"}

\* what a caller may hand to queryPermission
PermissionNames == {"read", "write", "clipboard-read", "undefined"}

\* resolvedPromise({ state: s })
PermissionState(s) == [tag |-> "ok", state |-> s, msg |-> ""]

\* 'clipboard-' + name
ClipboardPermission(name) == IF name = "read" THEN "clipboard-read" ELSE "clipboard-write"

\* a query without the test for navigator.permissions: the call fails and
\* the failure is handed on
queryClipboardPermissionUnguarded(w, permissionName, q) ==
  IF ~w.isBrowser \/ ~w.perm.query
  THEN [w EXCEPT !.perm.st = "done",
                 !.perm.res = [tag |-> "err", state |-> "",
                               msg |-> "TypeError: navigator.permissions is undefined"]]
  ELSE IF q = "throw"
  THEN [w EXCEPT !.perm.asked = Append(@, permissionName), !.perm.outcome = "threw",
                 !.perm.st = "done", !.perm.res = PermissionState("prompt")]
  ELSE [w EXCEPT !.perm.asked = Append(@, permissionName), !.perm.st = "querying"]

\* queryClipboardPermission; q is what navigator.permissions.query does when
\* called: it throws, or it returns a promise that is still pending
queryClipboardPermission(w, permissionName, q) ==
  IF ~w.isBrowser \/ ~w.perm.query
  THEN [w EXCEPT !.perm.st = "done", !.perm.res = PermissionState("prompt")]
  ELSE IF q = "throw"
  THEN [w EXCEPT !.perm.asked = Append(@, permissionName), !.perm.outcome = "threw",
                 !.perm.st = "done", !.perm.res = PermissionState("prompt")]
  ELSE [w EXCEPT !.perm.asked = Append(@, permissionName), !.perm.st = "querying"]

\* NowClipboard.queryPermission(name)
queryPermission(w, name, q) ==
  LET w0 == [w EXCEPT !.perm.name = name]
  IN IF name # "read" /\ name # "write"
     THEN [w0 EXCEPT !.perm.st = "done",
                     !.perm.res = [tag |-> "err", state |-> "",
                                   msg |-> "TypeError: queryPermission() expects read or write"]]
     ELSE IF w.isNode
     THEN [w0 EXCEPT !.perm.st = "done", !.perm.res = PermissionState("granted")]
     ELSE queryClipboardPermission(w0, ClipboardPermission(name), q)

\* the then callback: `return { state: result.state }'
permissionThen(w, state) ==
  [w EXCEPT !.perm.st = "done", !.perm.outcome = "resolved", !.perm.reported = state,
            !.perm.res = PermissionState(state)]

\* a catch callback that hands the failure on
permissionCatchRethrows(w) ==
  [w EXCEPT !.perm.st = "done", !.perm.outcome = "rejected",
            !.perm.res = [tag |-> "err", state |-> "", msg |-> "query rejected"]]

\* the catch callback: `return { state: 'prompt' }'
permissionCatch(w) ==
  [w EXCEPT !.perm.st = "done", !.perm.outcome = "rejected",
            !.perm.res = PermissionState("prompt")]

\* Every execution context, with and without navigator.permissions.
InitPermission == Init

\* the page's navigator.permissions appears or goes before the call
PermissionsChange ==
  /\ perm.st = "none"
  /\ Apply([W EXCEPT !.perm.query = ~@])

QueryPermission ==
  /\ perm.st = "none"
  /\ \E name \in PermissionNames, q \in {"throw", "pending"} :
       Apply(queryPermission(W, name, q))

\* the platform's promise resolves with a state
PermissionResolve ==
  /\ perm.st = "querying"
  /\ \E s \in PermissionStates : Apply(permissionThen(W, s))

\* the platform's promise rejects
PermissionReject ==
  /\ perm.st = "querying"
  /\ Apply(permissionCatch(W))

NextPermission ==
  \/ PermissionsChange \/ QueryPermission \/ PermissionResolve \/ PermissionReject

SpecPermission == InitPermission /\ [][NextPermission]_vars

\* ------------------------- neither a document nor a Node.js process
\* Every static operation, called where _isBrowser and _isNode are both
\* false (a worker, another JavaScript runtime).
InitNeither == Init /\ ~isBrowser /\ ~isNode

\* isExecCommandSupported(action); cmds is the set of commands for which
\* document.queryCommandSupported exists, does not throw and returns true
isExecCommandSupported(w, action, cmds) == w.isBrowser /\ action \in cmds

\* a check that goes by the commands alone
checkSupportByCommands(w, actionList, cmds) ==
  \A a \in actionList : a \in cmds

\* NowClipboard.checkSupport(actions); actionList is the list it ends up with
checkSupport(w, actionList, cmds) ==
  IF w.isNode THEN TRUE
  ELSE IF ~w.isBrowser THEN FALSE
  ELSE IF isClipboardAPIAvailable(w) THEN TRUE
  ELSE \A a \in actionList : isExecCommandSupported(w, a, cmds)

\* the action lists a caller may name; none stands for ['copy', 'cut']
ActionLists == {{"copy", "cut"}, {"copy"}, {"cut"}}

CheckSupport ==
  /\ support = "none"
  /\ \E actionList \in ActionLists, cmds \in SUBSET {"copy", "cut"} :
       Apply([W EXCEPT !.support = IF checkSupport(W, actionList, cmds) THEN "true"
                                   ELSE "false"])

\* copyRichText(options)
copyRichText(w, text, options, exec) ==
  retryOperation([w EXCEPT !.kind = "rich", !.arg = [type |-> "rich", val |-> text],
                           !.opts = options],
                 options, exec, "ok")

\* NowClipboard.copyRich(options): valid is whether options.text and
\* options.html are strings
CopyRich ==
  /\ kind = "none"
  /\ \E t \in Texts, o \in ImageOptions, valid \in BOOLEAN, exec \in ExecResults :
       IF o = Undefined \/ ~valid
       THEN Apply([W EXCEPT !.kind = "rich", !.opts = o, !.start = now,
                            !.caller = Err("TypeError: copyRich() requires text and html",
                                           0, 0),
                            !.callerAt = now])
       ELSE IF ~isBrowser
       THEN Apply([W EXCEPT !.kind = "rich", !.opts = o, !.start = now,
                            !.caller = Err("NowClipboard.copyRich() is only available in browser environment",
                                           0, 0),
                            !.callerAt = now])
       ELSE Apply(copyRichText(W, t, o, exec))

\* NowClipboard.copyBlob(blob, mimeType, options): isBlob is `blob
\* instanceof Blob'
CopyBlob ==
  /\ kind = "none"
  /\ \E isBlob \in BOOLEAN, o \in ImageOptions :
       IF ~isBrowser
       THEN Apply([W EXCEPT !.kind = "blob", !.opts = o, !.start = now,
                            !.caller = Err("NowClipboard.copyBlob() is only available in browser environment",
                                           0, 0),
                            !.callerAt = now])
       ELSE IF ~isClipboardItemSupported(W)
       THEN Apply([W EXCEPT !.kind = "blob", !.opts = o, !.start = now,
                            !.caller = Err("ClipboardItem API not supported", 0, 0),
                            !.callerAt = now])
       ELSE IF ~isBlob
       THEN Apply([W EXCEPT !.kind = "blob", !.opts = o, !.start = now,
                            !.caller = Err("TypeError: copyBlob() expects a Blob argument",
                                           0, 0),
                            !.callerAt = now])
       ELSE Apply(retryOperation([W EXCEPT !.kind = "blob", !.opts = o,
                                           !.image = [NoImage EXCEPT !.source = "Blob",
                                                                     !.blob = BlobOf(1)]],
                                 o, "true", "ok"))

\* NowClipboard.copy(text, options) with any argument
CopyAny ==
  /\ kind = "none"
  /\ \E a \in CopyArgs, o \in ImageOptions :
       IF ~_isString(a)
       THEN Apply([W EXCEPT !.kind = "copy", !.arg = a, !.start = now,
                            !.caller = Err("TypeError: copy() expects a string argument",
                                           0, 0),
                            !.callerAt = now])
       ELSE Apply(copyText(W, a, o, "true", "ok"))

\* NowClipboard.read(options)
ReadAny ==
  /\ kind = "none"
  /\ \E o \in ImageOptions : Apply(readText(W, o, "true", "ok"))

NextNeither ==
  \/ CopyAny \/ ReadAny \/ Cut \/ CopyImage \/ CopyBlob \/ CopyRich \/ CheckSupport
  \/ BackoffFire \/ TimeoutFire \/ Elapse

SpecNeither == InitNeither /\ [][NextNeither]_vars

\* ------------------------------- the legacy copies of a page, text and rich
\* A page without Node.js calls NowClipboard.copy or NowClipboard.copyRich;
\* navigator.clipboard may or may not offer writeText and write, and every
\* execCommand('copy') may return true or false or throw.
InitLegacy == Init /\ isBrowser /\ ~isNode

\* navigator.clipboard.write's promise resolves: copyRichTextModern's then
\* callback returns the text and the markup
ApiRichResolve ==
  /\ api = "rich"
  /\ Apply(Settle([W EXCEPT !.api = "idle", !.cur.apiRes = "ok",
                            !.clipboard = arg.val, !.ret = Ok(arg.val)]))

\* navigator.clipboard.write's promise rejects: copyRichText's catch handler
\* calls copyRichTextLegacy
ApiRichReject ==
  /\ api = "rich"
  /\ \E exec \in ExecResults :
       Apply(Settle(copyRichTextLegacy([W EXCEPT !.api = "idle",
                                                 !.cur.apiRes = "rejected"],
                                       exec)))

NextLegacy ==
  \/ ItemApiChange \/ CopyWith \/ CopyRich
  \/ ApiWriteResolve \/ ApiWriteReject \/ ApiRichResolve \/ ApiRichReject
  \/ BackoffFire \/ TimeoutFire \/ Elapse

SpecLegacy == InitLegacy /\ [][NextLegacy]_vars

\* --------------------------- capabilities that change after the load
\* NowClipboard.copy in every context.  Between the load of the library and
\* the call, or between two attempts, a script may define window and
\* document (a DOM emulation set up late), and EnvChange installs or removes
\* navigator.clipboard.writeText.  _isBrowser and _isNode keep the values
\* they got at the load.  Node.js is on Linux, where the adapter has two
\* utilities to try.
InitContext == Init /\ ~readApi /\ platform \in {"none", "linux"}

DocumentAppears ==
  /\ ~hasDocument
  /\ kind = "none" \/ bk.armed
  /\ Apply([W EXCEPT !.hasDocument = TRUE])

NextContext ==
  \/ DocumentAppears \/ EnvChange \/ CopyWith
  \/ ApiWriteResolve \/ ApiWriteReject
  \/ P1Error \/ P1Close \/ P2Error \/ P2Close
  \/ BackoffFire \/ TimeoutFire \/ Elapse

SpecContext == InitContext /\ [][NextContext]_vars

\* ------------------------------------------------- two calls under way
\* Two calls of NowClipboard.copy overlap, in a page or under Node.js on
\* macOS.  Nothing of retryOperation lives outside its closure, so each call
\* has its own copy of what Closure lists; the clock, the clipboard, the
\* document and the environment are the same for both.  The variables that
\* follow one call hold the first call, `second' holds the second.
MaxCallRetries == 1

Closure(w) ==
  [kind |-> w.kind, arg |-> w.arg, cfg |-> w.cfg, start |-> w.start,
   attempt |-> w.attempt, seq |-> w.seq, caller |-> w.caller, callerAt |-> w.callerAt,
   tmo |-> w.tmo, bk |-> w.bk, invocations |-> w.invocations, cur |-> w.cur,
   delays |-> w.delays, waits |-> w.waits, api |-> w.api, p1 |-> w.p1, p2 |-> w.p2,
   opts |-> w.opts]

\* one attempt counter for all calls, outside the closure
WithSharedAttempt(w, c) ==
  [w EXCEPT !.kind = c.kind, !.arg = c.arg, !.cfg = c.cfg, !.start = c.start,
            !.seq = c.seq, !.caller = c.caller,
            !.callerAt = c.callerAt, !.tmo = c.tmo, !.bk = c.bk,
            !.invocations = c.invocations, !.cur = c.cur, !.delays = c.delays,
            !.waits = c.waits, !.api = c.api, !.p1 = c.p1, !.p2 = c.p2,
            !.opts = c.opts]

\* one text for all calls, outside the closure
WithSharedText(w, c) ==
  [w EXCEPT !.kind = c.kind, !.cfg = c.cfg, !.start = c.start,
            !.attempt = c.attempt, !.seq = c.seq, !.caller = c.caller,
            !.callerAt = c.callerAt, !.tmo = c.tmo, !.bk = c.bk,
            !.invocations = c.invocations, !.cur = c.cur, !.delays = c.delays,
            !.waits = c.waits, !.api = c.api, !.p1 = c.p1, !.p2 = c.p2,
            !.opts = c.opts]

\* the state as the handlers of the call with closure c see it
With(w, c) ==
  [w EXCEPT !.kind = c.kind, !.arg = c.arg, !.cfg = c.cfg, !.start = c.start,
            !.attempt = c.attempt, !.seq = c.seq, !.caller = c.caller,
            !.callerAt = c.callerAt, !.tmo = c.tmo, !.bk = c.bk,
            !.invocations = c.invocations, !.cur = c.cur, !.delays = c.delays,
            !.waits = c.waits, !.api = c.api, !.p1 = c.p1, !.p2 = c.p2,
            !.opts = c.opts]

\* the state with the two calls in each other's place
Swap(w) == [With(w, w.second) EXCEPT !.second = Closure(w)]

\* the state as the handlers of call i see it, and back
OfCall(i, w) == IF i = 1 THEN w ELSE Swap(w)

\* the texts of the two calls
CallText(i) == [type |-> "string", val |-> IF i = 1 THEN <<"a">> ELSE <<"b">>]

\* the options of the two calls
CallOptions ==
  {[type |-> "object", retries |-> n, retryDelay |-> 1, timeout |-> t] :
     n \in 0..MaxCallRetries, t \in {0, 2}}

\* a handler of call i has turned v into w1: a clipboard that changed has
\* received the call's text (the two texts differ, and a call's write lands
\* at most once)
Landings(i, v, w1) ==
  [w1 EXCEPT !.log = IF w1.clipboard # v.clipboard
                     THEN Append(@, [ev |-> "landed", call |-> i]) ELSE @]

Commit(i, v, w1) == Apply(OfCall(i, Landings(i, v, w1)))

InitConcurrent ==
  /\ Init /\ ~readApi /\ isBrowser # isNode /\ platform \in {"none", "darwin"}

\* NowClipboard.copy(text, options), the i-th call
CopyOf(i) ==
  LET v == OfCall(i, W) IN
  /\ v.kind = "none"
  /\ \E o \in CallOptions, exec \in {"true", "false"} :
       Commit(i, v, copyText([v EXCEPT !.log = Append(@, [ev |-> "call", call |-> i])],
                             CallText(i), o, exec, "ok"))

ApiWriteResolveOf(i) ==
  LET v == OfCall(i, W) IN
  /\ v.api = "write"
  /\ Commit(i, v, Settle(modernCopyThen([v EXCEPT !.api = "idle", !.cur.apiRes = "ok",
                                                  !.clipboard = v.arg.val])))

ApiWriteRejectOf(i) ==
  LET v == OfCall(i, W) IN
  /\ v.api = "write"
  /\ \E exec \in {"true", "false"} :
       Commit(i, v, Settle(copyTextOnApiFailure([v EXCEPT !.api = "idle",
                                                          !.cur.apiRes = "rejected"],
                                                exec)))

P1ErrorOf(i) ==
  LET v == OfCall(i, W) IN
  /\ v.p1.st # "none"
  /\ \A k \in 1..Len(v.p1.events) : v.p1.events[k] # "error"
  /\ Commit(i, v, Settle(PrimaryOnError(v, "ok")))

P1CloseOf(i) ==
  LET v == OfCall(i, W) IN
  /\ v.p1.st = "running"
  /\ \E code \in {0, 1} :
       /\ v.p1.events # <<>> => code # 0
       /\ Commit(i, v, Settle(PrimaryOnClose(v, code)))

BackoffFireOf(i) ==
  LET v == OfCall(i, W) IN
  /\ v.bk.armed /\ v.bk.due <= now
  /\ \E exec \in {"true", "false"} :
       Commit(i, v, Settle(tryOnce([v EXCEPT !.bk = NoBackoff,
                                             !.waits = Append(@, now - v.bk.setAt)],
                                   exec, "ok")))

TimeoutFireOf(i) ==
  LET v == OfCall(i, W) IN
  /\ v.tmo.st = "armed" /\ v.tmo.due <= now
  /\ Commit(i, v, [v EXCEPT !.tmo.st = "fired",
                            !.caller = Err("Operation timed out", v.cfg.timeout, 0),
                            !.callerAt = now])

\* time passes; no timer of either call is overdue
TickBoth ==
  /\ now < MaxTime
  /\ bk.armed \/ tmo.st = "armed" \/ second.bk.armed \/ second.tmo.st = "armed"
  /\ ~(bk.armed /\ bk.due <= now) /\ ~(tmo.st = "armed" /\ tmo.due <= now)
  /\ ~(second.bk.armed /\ second.bk.due <= now)
  /\ ~(second.tmo.st = "armed" /\ second.tmo.due <= now)
  /\ Apply([W EXCEPT !.now = @ + 1])

NextConcurrent ==
  \/ \E i \in 1..2 :
       \/ CopyOf(i) \/ ApiWriteResolveOf(i) \/ ApiWriteRejectOf(i)
       \/ P1ErrorOf(i) \/ P1CloseOf(i) \/ BackoffFireOf(i) \/ TimeoutFireOf(i)
  \/ TickBoth

SpecConcurrent == InitConcurrent /\ [][NextConcurrent]_vars

\* ------------------------------------------------- NowClipboard.onPaste
MaxBindings == 2
MaxPastes == 2

\* what getData or the files property gives: it throws, gives nothing, or
\* gives a value
Throws == [k |-> "throws", v |-> <<>>]
Nothing == [k |-> "nothing", v |-> <<>>]
Gives(v) == [k |-> "value", v |-> v]

\* the clipboardData of a paste event: none, or one whose three readers each
\* throw, give nothing or give a value
NoClipboardData == [present |-> FALSE, text |-> Nothing, html |-> Nothing, files |-> Nothing]

ClipboardDatas ==
  {NoClipboardData,
   [present |-> TRUE, text |-> Gives(<<"a">>), html |-> Throws, files |-> Nothing],
   [present |-> TRUE, text |-> Throws, html |-> Nothing, files |-> Gives(<<"f">>)],
   [present |-> TRUE, text |-> Nothing, html |-> Gives(<<"<b>", "a">>), files |-> Throws]}

\* `try { result.x = read() || '' } catch (e) {}': the value, unless reading
\* throws or gives nothing (for files: unless the list is empty)
ReadOrDefault(g) == IF g.k = "value" /\ g.v # <<>> THEN g.v ELSE <<>>

parsePasteData(clipboardData) ==
  IF ~clipboardData.present THEN [text |-> <<>>, html |-> <<>>, files |-> <<>>]
  ELSE [text |-> ReadOrDefault(clipboardData.text),
        html |-> ReadOrDefault(clipboardData.html),
        files |-> ReadOrDefault(clipboardData.files)]

\* the targets onPaste tells apart: null or undefined, a selector string, an
\* element; anything else is refused
PasteTargets == {"null", "selector", "element", "other"}

\* the node the listener is put on
ListenerNode(target) ==
  IF target = "null" THEN "document" ELSE IF target = "selector" THEN "body" ELSE "element"

\* an entry of a node's listener table
Listener(node, id, capture) ==
  [node |-> node, type |-> "paste", listener |-> id, capture |-> capture]

\* bindPasteListener(target, callback)
bindPasteListener(w, target, callbackIsFunction) ==
  IF ~callbackIsFunction \/ target = "other"
  THEN [w EXCEPT !.paste.thrown = TRUE]
  ELSE LET id == Len(w.paste.bindings) + 1
       IN [w EXCEPT
             !.paste.thrown = FALSE,
             !.paste.bindings = Append(@, [target |-> target, destroys |-> 0,
                                           delivered |-> <<>>, observed |-> 0,
                                           late |-> 0]),
             !.paste.dom = @ \cup {Listener(ListenerNode(target), id, FALSE)}]

\* a handle that names the capturing listener, which was never added
pasteDestroyCapturing(w, i) ==
  [w EXCEPT !.paste.bindings[i].destroys = @ + 1,
            !.paste.dom = @ \ {Listener(ListenerNode(w.paste.bindings[i].target), i, TRUE)}]

\* the handle's destroy(): removeEventListener('paste', handler, false) on
\* the node the listener was put on
pasteDestroy(w, i) ==
  [w EXCEPT !.paste.bindings[i].destroys = @ + 1,
            !.paste.dom = @ \ {Listener(ListenerNode(w.paste.bindings[i].target), i, FALSE)}]

\* the nodes a paste event passes, from where it happened up to the document
EventPath(at) ==
  IF at = "element" THEN {"element", "body", "document"} ELSE {"body", "document"}

\* closest(e.target, selector): the selector names the element
ClosestMatches(at) == at = "element"

\* binding i has a listener on a node of the event's path and, where it
\* delegates, the event happened inside an element the selector names
Reaches(w, i, at) ==
  LET b == w.paste.bindings[i]
  IN /\ Listener(ListenerNode(b.target), i, FALSE) \in w.paste.dom
     /\ ListenerNode(b.target) \in EventPath(at)
     /\ b.target = "selector" => ClosestMatches(at)

\* the paste events binding i is there for: all of the document's, or those
\* inside the element (the one the selector names)
Concerns(b, at) == b.target = "null" \/ at = "element"

\* pasteHandler(e): the record handed to the callback
pasteHandler(clipboardData) ==
  LET data == parsePasteData(clipboardData)
  IN [text |-> data.text, html |-> data.html, files |-> data.files,
      originalEvent |-> clipboardData]

\* a paste event is dispatched: every listener it reaches runs pasteHandler,
\* which calls the callback once
dispatchPaste(w, clipboardData, at) ==
  [w EXCEPT
     !.paste.pastes = @ + 1,
     !.paste.bindings =
        [i \in 1..Len(@) |->
           LET b == @[i]
               b1 == IF b.destroys = 0 /\ Concerns(b, at)
                     THEN [b EXCEPT !.observed = @ + 1] ELSE b
           IN IF Reaches(w, i, at)
              THEN [b1 EXCEPT !.delivered = Append(@, pasteHandler(clipboardData)),
                              !.late = IF b.destroys > 0 THEN @ + 1 ELSE @]
              ELSE b1]]

InitPaste == Init /\ ~isNode /\ ~writeApi /\ ~readApi

\* NowClipboard.onPaste(target, callback)
OnPaste ==
  /\ Len(paste.bindings) < MaxBindings
  /\ \E target \in PasteTargets, callbackIsFunction \in BOOLEAN :
       IF ~isBrowser
       THEN Apply([W EXCEPT !.paste.thrown = TRUE])
       ELSE Apply(bindPasteListener(W, target, callbackIsFunction))

\* destroy() of a handle, the first time or again
PasteDestroy ==
  \E i \in 1..Len(paste.bindings) :
    /\ paste.bindings[i].destroys < 2
    /\ Apply(pasteDestroy(W, i))

\* the user pastes, inside the element or elsewhere in the document
PasteEvent ==
  /\ isBrowser
  /\ paste.pastes < MaxPastes
  /\ \E cd \in ClipboardDatas, at \in {"element", "elsewhere"} :
       Apply(dispatchPaste(W, cd, at))

NextPaste == OnPaste \/ PasteDestroy \/ PasteEvent

SpecPaste == InitPaste /\ [][NextPaste]_vars

\* ------------------------------------------ the instance's event emitter
MaxListeners == 2
MaxEmits == 2

\* A page without navigator.clipboard, which constructs one instance.
InitEmitter == Init /\ isBrowser /\ ~isNode /\ ~writeApi /\ ~readApi

\* new NowClipboard(trigger, options), with or without a trigger
Construct ==
  /\ em.st = "none"
  /\ \E trigger \in BOOLEAN :
       Apply([W EXCEPT !.em.st = "live", !.em.bound = isBrowser /\ trigger])

\* instance.on(event, fn) and instance.once(event, fn)
On ==
  /\ em.st = "live" /\ ~em.destroyed
  /\ Len(em.count) < MaxListeners
  /\ \E event \in EventNames, fn \in ListenerFns, once \in BOOLEAN :
       Apply([W EXCEPT !.em = addListener(em, event, fn, once)])

\* instance.off(event, fn) and instance.off(event)
Off ==
  /\ em.st = "live" /\ ~em.destroyed
  /\ \E event \in EventNames :
       /\ em.events[event] # <<>>
       /\ \/ \E fn \in {"f", "g"} :
               Apply([W EXCEPT !.em = off([em EXCEPT !.thrown = FALSE], event, fn)])
          \/ Apply([W EXCEPT !.em = offAll([em EXCEPT !.thrown = FALSE], event)])

\* instance.destroy()
Destroy ==
  /\ em.st = "live"
  /\ Apply([W EXCEPT !.em = destroy([em EXCEPT !.thrown = FALSE])])

\* a click on the trigger: onClick emits 'error' at once for an invalid
\* action or a missing target, or starts an operation
Click ==
  /\ em.bound
  /\ em.emits + em.inflight < MaxEmits
  /\ \/ Apply([W EXCEPT !.em = emit([em EXCEPT !.thrown = FALSE, !.emits = @ + 1],
                                    "error", 0)])
     \/ Apply([W EXCEPT !.em.inflight = @ + 1, !.em.thrown = FALSE])

\* the operation's promise settles: the then callback emits 'success', the
\* catch callback emits 'error', also when a 'success' listener threw
OperationSettles ==
  /\ em.inflight > 0
  /\ \E ok \in BOOLEAN :
       LET e0 == [em EXCEPT !.inflight = @ - 1, !.thrown = FALSE, !.emits = @ + 1]
           e1 == IF ok THEN emit(e0, "success", 0) ELSE e0
           e2 == IF ~ok \/ e1.thrown
                 THEN emit([e1 EXCEPT !.thrown = FALSE], "error", 0)
                 ELSE e1
       IN Apply([W EXCEPT !.em = e2])

\* the page emits an event itself
Emit ==
  /\ em.st = "live"
  /\ em.emits + em.inflight < MaxEmits
  /\ \E event \in EventNames :
       Apply([W EXCEPT !.em = emit([em EXCEPT !.thrown = FALSE, !.emits = @ + 1],
                                   event, 0)])

NextEmitter ==
  \/ Construct \/ On \/ Off \/ Destroy \/ Click \/ OperationSettles \/ Emit

SpecEmitter == InitEmitter /\ [][NextEmitter]_vars

\* ------------------------------------------ a click on an instance's trigger
\* A page constructs one instance with retry settings of its own, may
\* register one listener, and its trigger is clicked once.
InitClick == Init /\ isBrowser /\ ~isNode /\ ~readApi

\* NowClipboard.prototype.resolveOptions: retries, retryDelay and timeout
resolveOptions(options) ==
  [retries |-> IF options.retries # Absent THEN options.retries ELSE DefaultRetries,
   retryDelay |-> IF options.retryDelay # Absent THEN options.retryDelay
                  ELSE DefaultRetryDelay,
   timeout |-> IF options.timeout # Absent THEN options.timeout ELSE DefaultTimeout]

\* the options object onClick builds from the instance's settings
SettingsObject(s) ==
  [type |-> "object", retries |-> s.retries, retryDelay |-> s.retryDelay,
   timeout |-> s.timeout]

\* the constructor's options: none, no retry, one retry under a deadline
InstanceOptions ==
  {EmptyObject,
   [type |-> "object", retries |-> 0, retryDelay |-> 1, timeout |-> Absent],
   [type |-> "object", retries |-> 1, retryDelay |-> 1, timeout |-> 3]}

\* the elements a trigger may name as its target, with their attributes
ClickTargets ==
  {[el |-> [nodeType |-> 1, nodeName |-> n, contenteditable |-> FALSE,
            content |-> <<"b">>],
    readonly |-> r, disabled |-> d] :
     n \in {"TEXTAREA", "DIV"}, r \in BOOLEAN, d \in BOOLEAN}

\* copyFromElement(element, options)
copyFromElement(w, e, options, exec) ==
  retryOperation([w EXCEPT !.kind = "element", !.element = e,
                           !.arg = [type |-> "string", val |-> selectText(e)],
                           !.opts = options],
                 OrEmptyObject(options), exec, "ok")

\* a handler that cuts without looking at the target's attributes
onClickUnchecked(w, actionName, text, target, rich, cmd, exec) ==
  LET w0 == [w EXCEPT !.inst.st = "operating", !.inst.action = actionName,
                      !.inst.text = text, !.inst.target = target, !.inst.rich = rich]
      o == SettingsObject(w.inst.settings)
  IN IF actionName \notin {"copy", "cut"}
     THEN emitFrom([w0 EXCEPT !.inst.st = "done", !.inst.branch = "invalid action"],
                   "error")
     ELSE IF text # <<>>
     THEN copyText([w0 EXCEPT !.inst.branch = "text"],
                   [type |-> "string", val |-> text], o, exec, "ok")
     ELSE IF target # NoTarget
     THEN IF actionName = "cut"
          THEN performCut([w0 EXCEPT !.inst.branch = "cut"], target.el, cmd, exec)
          ELSE IF rich
          THEN copyRichText([w0 EXCEPT !.inst.branch = "rich"], target.el.content, o,
                            exec)
          ELSE copyFromElement([w0 EXCEPT !.inst.branch = "element"], target.el, o,
                               exec)
     ELSE emitFrom([w0 EXCEPT !.inst.st = "done", !.inst.branch = "nothing to copy"],
                   "error")

\* NowClipboard.prototype.onClick, up to the first suspension.  actionName,
\* text and target are what this.action, this.text and this.target returned
\* (an empty text and NoTarget are falsy), rich is whether the trigger has
\* data-nc-html="true", cmd and exec are what execCommand('cut') and
\* execCommand('copy') do.
onClick(w, actionName, text, target, rich, cmd, exec) ==
  LET w0 == [w EXCEPT !.inst.st = "operating", !.inst.action = actionName,
                      !.inst.text = text, !.inst.target = target, !.inst.rich = rich]
      o == SettingsObject(w.inst.settings)
  IN IF actionName \notin {"copy", "cut"}
     THEN emitFrom([w0 EXCEPT !.inst.st = "done", !.inst.branch = "invalid action"],
                   "error")
     ELSE IF text # <<>>
     THEN copyText([w0 EXCEPT !.inst.branch = "text"],
                   [type |-> "string", val |-> text], o, exec, "ok")
     ELSE IF target # NoTarget
     THEN IF actionName = "cut"
          THEN IF target.readonly \/ target.disabled
               THEN emitFrom([w0 EXCEPT !.inst.st = "done",
                                        !.inst.branch = "cut refused"], "error")
               ELSE performCut([w0 EXCEPT !.inst.branch = "cut"], target.el, cmd, exec)
          ELSE IF rich
          THEN copyRichText([w0 EXCEPT !.inst.branch = "rich"], target.el.content, o,
                            exec)
          ELSE IF target.disabled
          THEN emitFrom([w0 EXCEPT !.inst.st = "done",
                                   !.inst.branch = "copy refused"], "error")
          ELSE copyFromElement([w0 EXCEPT !.inst.branch = "element"], target.el, o,
                               exec)
     ELSE emitFrom([w0 EXCEPT !.inst.st = "done", !.inst.branch = "nothing to copy"],
                   "error")

\* new NowClipboard(trigger, options)
ConstructWith ==
  /\ em.st = "none"
  /\ \E o \in InstanceOptions :
       Apply([W EXCEPT !.em.st = "live", !.em.bound = isBrowser,
                       !.inst.settings = resolveOptions(o)])

\* instance.on(event, fn), once, before the click
Listen ==
  /\ em.st = "live" /\ em.count = <<>> /\ inst.st = "none"
  /\ \E event \in EventNames, fn \in {"f", "thrower"} :
       Apply([W EXCEPT !.em = addListener(em, event, fn, FALSE)])

\* the click
OnClick ==
  /\ em.bound /\ inst.st = "none"
  /\ \E actionName \in {"copy", "cut", "paste"}, text \in {<<>>, <<"a">>},
        target \in ClickTargets \cup {NoTarget}, rich \in BOOLEAN,
        cmd \in {"true", "false"}, exec \in ExecResults :
       /\ cmd = "true" => CutCommandMayAct(target.el)
       /\ Store(clickReactions(Reactions(
                  onClick(W, actionName, text, target, rich, cmd, exec))))

NextClick ==
  \/ ConstructWith \/ Listen \/ ItemApiChange \/ OnClick
  \/ ApiWriteResolve \/ ApiWriteReject \/ ApiRichResolve \/ ApiRichReject
  \/ BackoffFire \/ TimeoutFire \/ Elapse

SpecClick == InitClick /\ [][NextClick]_vars

\* ---------------------------------------------------------- properties
IsTimeoutError(v) == v.tag = "err" /\ v.msg = "Operation timed out"

RECURSIVE SumSeq(_)
SumSeq(s) == IF s = <<>> THEN 0 ELSE Head(s) + SumSeq(Tail(s))

\* C1: with retries = N and no timeout, an operation that fails on every
\* invocation is invoked exactly N+1 times, never more, and the caller's
\* promise rejects with the error object of the (N+1)-th invocation itself.
C1_PermanentFailure ==
  /\ invocations <= cfg.retries + 1
  /\ (invocations > 0 /\ cfg.timeout = 0 /\ cur.res.tag = "err" /\ ~bk.armed) =>
       /\ invocations = cfg.retries + 1
       /\ caller = cur.res
  /\ (invocations > 0 /\ cfg.timeout = 0 /\ caller.tag = "err") =>
       /\ invocations = cfg.retries + 1
       /\ caller = cur.res
       /\ caller.inv = cfg.retries + 1

C1_Witness ==
  /\ cfg.timeout = 0 /\ cfg.retries = 2 /\ invocations = 3
  /\ caller.tag = "err" /\ caller.inv = 3

\* C2 as stated: once the k-th invocation has succeeded, the caller's promise
\* is resolved with that invocation's value.
C2_CallerResolves ==
  (invocations > 0 /\ cur.res.tag = "ok") => caller = cur.res

\* C2 amended: once the k-th invocation has succeeded the retry sequence is
\* settled with its value, no further invocation is scheduled or made, and
\* the caller's promise holds that value unless the timeout timer fired
\* first, in which case it keeps the timeout error; copyText with retries 0,
\* no timeout and a working write API resolves with the text after exactly
\* one write attempt.
C2_SuccessState ==
  (invocations > 0 /\ cur.res.tag = "ok") =>
     /\ seq = cur.res
     /\ ~bk.armed
     /\ invocations <= cfg.retries + 1
     /\ IF tmo.st = "fired" THEN IsTimeoutError(caller) ELSE caller = cur.res
     /\ (kind = "copy" /\ cfg.retries = 0 /\ cfg.timeout = 0 /\ cur.mechs = <<"api">>) =>
          /\ caller = Ok(arg.val)
          /\ apiCalls = 1 /\ legacyCalls = 0 /\ spawns = 0 /\ invocations = 1

C2_SuccessEndsSequence ==
  []C2_SuccessState
  /\ [][cur.res.tag = "ok" =>
          invocations' = invocations /\ cur' = cur /\ seq' = seq]_vars

C2_Witness ==
  /\ invocations = 2 /\ cur.res.tag = "ok" /\ caller = cur.res /\ cfg.retries = 3

\* C3: for timeout T > 0 the deadline is one timer set when the call starts
\* and covering all attempts and backoff waits; if the sequence has not
\* settled by T the caller observes the timeout error at T, and a success or
\* failure the sequence produces later never changes what the caller saw.
C3_TimerState ==
  /\ (invocations > 0 /\ cfg.timeout > 0) =>
       /\ tmo.st # "none"
       /\ tmo.due = start + cfg.timeout
  /\ cfg.timeout = 0 => tmo.st = "none"
  /\ tmo.st = "armed" => now <= tmo.due /\ caller.tag = "pending" /\ seq.tag = "pending"
  /\ tmo.st = "cleared" => seq.tag # "pending" /\ caller = seq
                           /\ callerAt <= start + cfg.timeout
  /\ tmo.st = "fired" => /\ IsTimeoutError(caller)
                         /\ caller.code = cfg.timeout
                         /\ callerAt = start + cfg.timeout
  /\ IsTimeoutError(caller) => tmo.st = "fired"
  /\ (invocations > 0 /\ cfg.timeout > 0 /\ seq.tag = "pending"
      /\ now > start + cfg.timeout) => IsTimeoutError(caller)

C3_Deadline ==
  []C3_TimerState
  /\ [][caller.tag # "pending" => caller' = caller /\ callerAt' = callerAt]_vars

C3_Witness ==
  /\ tmo.st = "fired" /\ IsTimeoutError(caller)
  /\ invocations >= 2 /\ seq.tag = "ok" /\ now > start + cfg.timeout

\* C4: the k-th backoff wait handed to the timer is retryDelay * 2^(k-1), the
\* timer takes exactly that long, and a sequence that failed for good with
\* retries = N has waited retryDelay * (2^N - 1) in total.
C4_Backoff ==
  /\ \A k \in 1..Len(delays) : delays[k] = cfg.retryDelay * (2 ^ (k - 1))
  /\ Len(waits) <= Len(delays)
  /\ \A k \in 1..Len(waits) : waits[k] = delays[k]
  /\ invocations > 0 => Len(waits) = invocations - 1
  /\ bk.armed => Len(delays) = invocations /\ bk.due = bk.setAt + delays[Len(delays)]
  /\ seq.tag = "err" =>
       /\ Len(waits) = cfg.retries
       /\ SumSeq(waits) = cfg.retryDelay * ((2 ^ cfg.retries) - 1)

C4_Witness ==
  /\ seq.tag = "err" /\ cfg.retries = 3 /\ cfg.retryDelay = 1
  /\ waits = <<1, 2, 4>>

\* the mechanism an invocation of the chain started first
FirstMech == IF cur.mechs = <<>> THEN "none" ELSE cur.mechs[1]

HasMech(m) == \E i \in 1..Len(cur.mechs) : cur.mechs[i] = m

\* C5: every attempt of copyText picks its first mechanism in this order: the
\* in-process write API if it is detected, else the legacy copy if there is
\* an interactive document, else the OS process adapter in a headless host,
\* else it rejects with 'no clipboard method available' and no mechanism is
\* invoked at all.
C5_FirstMechanism ==
  (kind = "copy" /\ invocations > 0) =>
     IF isBrowser /\ cur.seen THEN FirstMech = "api"
     ELSE IF isBrowser THEN FirstMech = "legacy"
     ELSE IF isNode THEN FirstMech = "primary"
     ELSE /\ cur.mechs = <<>>
          /\ cur.res = Err("No clipboard method available in this environment",
                           0, invocations)
          /\ apiCalls = 0 /\ legacyCalls = 0 /\ spawns = 0

C5_Witness ==
  /\ kind = "copy" /\ isBrowser /\ isNode /\ ~cur.seen
  /\ cur.mechs = <<"legacy">> /\ caller = Ok(arg.val)

\* what C6 says of the state; strict is whether a success of the legacy copy
\* has to have resolved the caller's promise whatever the timer did
ApiFailureChain(strict) ==
  /\ (kind = "copy" /\ cur.apiRes = "rejected") =>
       IF isBrowser
       THEN /\ cur.mechs = <<"api", "legacy">>
            /\ cur.res.tag # "pending"
            /\ cur.res.tag = "err" => cur.res.msg = "execCommand copy failed"
            /\ cur.res.tag = "ok" =>
                 /\ cur.res = Ok(arg.val)
                 /\ seq = cur.res
                 /\ IF strict \/ tmo.st # "fired" THEN caller = Ok(arg.val)
                    ELSE IsTimeoutError(caller)
       ELSE /\ cur.mechs = <<"api">>
            /\ cur.res.msg = "Clipboard API failed and no fallback available"
  /\ (kind = "copy" /\ cur.res.msg = "Clipboard API failed and no fallback available")
       => cur.apiRes = "rejected" /\ ~isBrowser

\* the task in which the API's rejection is handled tries the legacy copy in
\* the same invocation; the retry counter moves, and a backoff wait is
\* scheduled, only if that copy failed too
ApiFailureStep ==
  (kind = "copy" /\ cur.apiRes = "pending" /\ cur'.apiRes = "rejected") =>
     /\ invocations' = invocations
     /\ waits' = waits
     /\ isBrowser => legacyCalls' = legacyCalls + 1
     /\ cur'.res.tag = "ok" => attempt' = attempt /\ delays' = delays /\ ~bk'.armed
     /\ cur'.res.tag = "err" => attempt' = attempt + 1

C7_FallThroughToNode ==
  (kind = "copy" /\ isNode /\ cur.apiRes = "rejected" /\ HasMech("legacy")
   /\ cur.res.tag = "err") => HasMech("primary")

ErrorFirst(p) == p.events # <<>> /\ p.events[1] = "error"

CloseFirst(p) == p.events # <<>> /\ p.events[1] = "close"

SecondaryArgs(mode) ==
  IF mode = "write" THEN <<"--clipboard", "--input">> ELSE <<"--clipboard", "--output">>

SecondaryFailures ==
  {"Failed to spawn xsel", "No clipboard command available", "xsel exited with code",
   "Failed to spawn xsel for read", "No clipboard read command available",
   "xsel read exited with code"}

\* C8: in the OS process adapter, write and read, a primary utility that
\* fails to start makes the adapter try xsel before its promise rejects when
\* the platform is neither Windows nor macOS, with the same text on its
\* standard input; on Windows and macOS the failure rejects at once and no
\* second process is spawned.
C8_SecondaryUtility ==
  /\ (ErrorFirst(p1) /\ platform \notin {"win32", "darwin"}) =>
       /\ cur.mechs = <<"primary", "secondary">>
       /\ p2.st # "none" =>
            /\ p2.cmd = "xsel" /\ p2.args = SecondaryArgs(p1.mode)
            /\ p2.mode = p1.mode /\ p2.stdin = p1.stdin
            /\ p1.mode = "write" => p2.stdin = arg.val
       /\ (p2.st # "none" /\ ~p2.finished) => cur.res.tag = "pending"
       /\ cur.res.tag = "err" => cur.res.msg \in SecondaryFailures
  /\ (ErrorFirst(p1) /\ platform \in {"win32", "darwin"}) =>
       /\ cur.mechs = <<"primary">>
       /\ cur.res = Err(IF p1.mode = "write" THEN "Clipboard command failed"
                        ELSE "Clipboard read command failed", 0, invocations)
  /\ p2.st # "none" => ErrorFirst(p1) /\ platform \notin {"win32", "darwin"}
  /\ platform \in {"win32", "darwin"} => spawns <= invocations

C8_Witness ==
  /\ platform = "linux" /\ kind = "copy" /\ ErrorFirst(p1)
  /\ p2.st = "closed" /\ p2.stdin = arg.val /\ caller = Ok(arg.val)

\* C9: in the adapter's write, a spawned utility (primary or secondary) that
\* exits with code 0 makes the promise resolve with the original text, one
\* that exits with a code c other than 0 makes it reject with an exit-code
\* error carrying c, and a failing exit of the primary never starts xsel.
C9_ExitCode ==
  /\ (p1.mode = "write" /\ CloseFirst(p1)) =>
       /\ p1.stdin = arg.val
       /\ p2 = NoProc /\ cur.mechs = <<"primary">>
       /\ IF p1.code = 0 THEN cur.res = Ok(arg.val)
          ELSE cur.res = Err("Clipboard command exited with code", p1.code, invocations)
  /\ (p2.mode = "write" /\ CloseFirst(p2)) =>
       /\ p2.stdin = arg.val
       /\ IF p2.code = 0 THEN cur.res = Ok(arg.val)
          ELSE cur.res = Err("xsel exited with code", p2.code, invocations)

C9_Witness ==
  /\ p1.mode = "write" /\ CloseFirst(p1) /\ p1.code = 2 /\ platform = "linux"
  /\ caller.tag = "err" /\ caller.code = 2 /\ spawns = 1

\* C10: NowClipboard.copy with a text argument that is not a string rejects
\* with a TypeError at once: no API call, no offscreen element, no process,
\* no operation invocation, no retry and no timer.
C10_InvalidArgument ==
  (kind = "copy" /\ arg \in NonStringArgs) =>
     /\ caller = Err("TypeError: copy() expects a string argument", 0, 0)
     /\ callerAt = start
     /\ invocations = 0 /\ attempt = 0 /\ seq = Pending /\ cur = NoInvocation
     /\ apiCalls = 0 /\ legacyCalls = 0 /\ spawns = 0 /\ api = "idle"
     /\ p1 = NoProc /\ p2 = NoProc
     /\ tmo = NoTimer /\ bk = NoBackoff /\ delays = <<>> /\ waits = <<>>
     /\ clipboard = <<"z">>

C10_Witness ==
  kind = "copy" /\ arg \in NonStringArgs /\ caller.tag = "err"

\* C11: a public operation never throws synchronously, whatever way a
\* mechanism under it fails: the caller always gets a promise.
C11_NeverThrows == caller.tag # "thrown"

\* C12: an absent options object or an absent field yields retries = 2,
\* retryDelay = 100, timeout = 0, and every supplied value, 0 included, is
\* kept; the operation is invoked at most retries + 1 times and exactly
\* that often when the sequence fails: at most 3 times with no options, and
\* exactly once, with no backoff wait, with {retries: 0}.
C12_RetryConfig ==
  (kind # "none" /\ opts.type \in {"undefined", "object"}) =>
     /\ cfg.retries = (IF opts.retries = Absent THEN 2 ELSE opts.retries)
     /\ cfg.retryDelay = (IF opts.retryDelay = Absent THEN 100 ELSE opts.retryDelay)
     /\ cfg.timeout = (IF opts.timeout = Absent THEN 0 ELSE opts.timeout)
     /\ invocations >= 1
     /\ invocations <= cfg.retries + 1
     /\ seq.tag = "err" => invocations = cfg.retries + 1
     /\ opts.type = "undefined" => invocations <= 3
     /\ opts.retries = 0 =>
          /\ invocations = 1
          /\ delays = <<>> /\ waits = <<>> /\ ~bk.armed
          /\ seq.tag # "pending" \/ api # "idle"

C12_Witness ==
  /\ opts.type = "undefined" /\ invocations = 3 /\ caller.tag = "err"
  /\ waits = <<100, 200>>

\* C13: a bare non-negative integer n in place of the options of copy or
\* read acts as {retries: n, retryDelay: 100, timeout: 0}: a chain that
\* fails for good has been invoked exactly n + 1 times.
C13_BareInteger ==
  (kind # "none" /\ opts.type = "number") =>
     /\ cfg = [retries |-> opts.retries, retryDelay |-> 100, timeout |-> 0]
     /\ seq.tag = "err" => invocations = opts.retries + 1

\* C14: with a timeout of 0 or less no timer is installed; whenever an
\* invocation succeeds, however late, the caller's promise is resolved
\* with its value, and the caller never holds a timeout error.
C14_NoTimer ==
  (kind # "none" /\ cfg.timeout <= 0) =>
     /\ tmo = NoTimer
     /\ ~IsTimeoutError(caller)
     /\ cur.res.tag = "ok" => caller = cur.res /\ seq = cur.res

C14_Witness ==
  /\ cfg.timeout < 0 /\ tmo = NoTimer
  /\ caller.tag = "ok" /\ callerAt >= start + SlowAnswer

\* C15: without a document, under Node.js, copyText(text, {retries: R,
\* retryDelay: D}) whose utility process runs and exits with code 0 resolves
\* with text on the first attempt whatever R is: one process spawned, no
\* backoff wait, no further attempt.
C15_HeadlessFirstAttempt ==
  /\ (kind = "copy" /\ ~isBrowser /\ isNode /\ opts.type = "object" /\ cfg.timeout = 0
      /\ invocations = 1 /\ CloseFirst(p1) /\ p1.code = 0) =>
       /\ caller = Ok(arg.val) /\ seq = Ok(arg.val)
       /\ cur.mechs = <<"primary">> /\ spawns = 1 /\ p2 = NoProc
       /\ apiCalls = 0 /\ legacyCalls = 0
       /\ attempt = 0 /\ delays = <<>> /\ waits = <<>> /\ bk = NoBackoff
       /\ clipboard = arg.val
  /\ (kind = "copy" /\ ~isBrowser /\ isNode /\ invocations > 1) =>
       attempt >= invocations - 1

C15_Witness ==
  /\ kind = "copy" /\ ~isBrowser /\ isNode /\ platform = "linux"
  /\ opts.type = "object" /\ cfg.retries = 3 /\ cfg.timeout = 0
  /\ invocations = 1 /\ CloseFirst(p1) /\ p1.code = 0
  /\ caller = Ok(arg.val) /\ spawns = 1

\* the content of the element that a user could edit
EditableContent(e) ==
  IF e.nodeName \in {"INPUT", "TEXTAREA"} \/ e.contenteditable THEN e.content ELSE <<>>

\* C16: when the 'cut' command failed or threw and the fallback copy of
\* the harvested text succeeded, cut resolves with the harvested text and
\* the element's editable content is empty, whatever element was given;
\* until the copy has succeeded, and if it fails, the element is untouched.
C16_CutEmulation ==
  (_isElement(element) /\ cut.cmd \in {"false", "throw"}) =>
     /\ arg.val = cut.text
     /\ caller.tag = "ok" =>
          /\ caller = Ok(cut.text) /\ cut.res = Ok(cut.text) /\ cut.st = "done"
          /\ clipboard = cut.text
          /\ EditableContent(element) = <<>>
          /\ ~CutCommandMayAct(element) => element.content = cut.text
     /\ caller.tag = "pending" =>
          cut.res = Pending /\ cut.st = "copying" /\ element.content = cut.text
     /\ caller.tag = "err" =>
          cut.res = caller /\ cut.st = "done" /\ element.content = cut.text

C16_Witness ==
  /\ element.nodeName = "DIV" /\ element.contenteditable /\ cut.cmd = "throw"
  /\ invocations = 2 /\ cut.res = Ok(<<"b">>) /\ element.content = <<>>

\* C17: every attempt of readText uses the in-process read API alone when
\* it is present in a page, else the OS process adapter under Node.js, else
\* it rejects with 'read not supported'; no attempt issues a legacy
\* selection command, and a rejection of the read API is the attempt's
\* result as it is: the adapter is not tried after it.
C17_ReadChain ==
  (kind = "read" /\ invocations > 0) =>
     /\ legacyCalls = 0
     /\ IF isBrowser /\ cur.seen
        THEN /\ cur.mechs = <<"api">>
             /\ p1 = NoProc /\ p2 = NoProc
             /\ cur.apiRes = "rejected" =>
                  cur.res = Err("readText rejected", 0, invocations)
        ELSE IF isNode
        THEN FirstMech = "primary" /\ ~HasMech("api")
        ELSE /\ cur.mechs = <<>>
             /\ cur.res = Err("Clipboard read not supported in this environment",
                              0, invocations)
     /\ ~isNode => spawns = 0
     /\ envChanges = 0 =>
          IF isBrowser /\ readApi
          THEN spawns = 0 /\ apiCalls = invocations
          ELSE apiCalls = 0

C17_Witness ==
  /\ kind = "read" /\ isBrowser /\ isNode /\ envChanges = 0
  /\ cur.apiRes = "rejected" /\ invocations = 2 /\ apiCalls = 2 /\ spawns = 0
  /\ caller = Err("readText rejected", 0, 2)

\* the chunks of a log, one after the other
RECURSIVE Concatenation(_)
Concatenation(chunks) ==
  IF chunks = <<>> THEN <<>> ELSE Head(chunks) \o Concatenation(Tail(chunks))

EndsWith(t, suffix) ==
  Len(t) >= Len(suffix) /\ SubSeq(t, Len(t) - Len(suffix) + 1, Len(t)) = suffix

\* res is full without one trailing line terminator, if full has one
WithoutOneTerminator(full, res) ==
  IF EndsWith(full, <<"\r", "\n">>) THEN res \o <<"\r", "\n">> = full
  ELSE IF EndsWith(full, <<"\n">>) THEN res \o <<"\n">> = full
  ELSE res = full

\* C18: the adapter's read whose utility exits with code 0 resolves with
\* the concatenation, in arrival order, of the chunks written to standard
\* output; on Windows one trailing \n or \r\n is removed if there is one and
\* nothing else; on the other platforms and for xsel nothing is changed.
C18_ReadOutput ==
  /\ (p1.mode = "read" /\ CloseFirst(p1) /\ p1.code = 0) =>
       /\ cur.res.tag = "ok" /\ caller = cur.res
       /\ IF platform = "win32"
          THEN WithoutOneTerminator(Concatenation(p1.emitted), cur.res.text)
          ELSE cur.res.text = Concatenation(p1.emitted)
  /\ (p2.mode = "read" /\ CloseFirst(p2) /\ p2.code = 0) =>
       /\ cur.res = Ok(Concatenation(p2.emitted)) /\ caller = cur.res

C18_Witness ==
  /\ platform = "win32" /\ p1.mode = "read" /\ CloseFirst(p1) /\ p1.code = 0
  /\ p1.emitted = << <<"a">>, <<"\r", "\n">> >>
  /\ caller = Ok(<<"a">>)

NormalizationFailures ==
  {"TypeError: Unsupported image source type", "Image element has no src",
   "Canvas toBlob returned null", "Failed to fetch image (CORS?)",
   "Failed to fetch image URL (CORS?)"}

\* C20: copyImage normalizes its source once, before the retry controller
\* starts, and every write under the controller carries that one blob; a
\* failed normalization rejects with no write and no retry; the write is
\* attempted at most retries + 1 times; without the ClipboardItem write API
\* the call rejects with no normalization, no write and no legacy copy.
C20_NormalizeOnce ==
  kind = "image" =>
     /\ image.normalized <= 1
     /\ legacyCalls = 0 /\ spawns = 0
     /\ apiCalls = invocations /\ Len(image.writes) = invocations
     /\ \A i \in 1..Len(image.writes) : image.writes[i] = image.blob
     /\ invocations > 0 =>
          /\ image.normalized = 1 /\ image.blob = BlobOf(1)
          /\ invocations <= cfg.retries + 1
          /\ image.st \in {"writing", "done"}
     /\ image.st = "normalizing" => invocations = 0 /\ image.res = Pending
     /\ (isBrowser /\ ~itemApi) =>
          /\ image.res = Err("ClipboardItem API not supported", 0, 0)
          /\ image.normalized = 0 /\ invocations = 0
     /\ image.res.msg \in NormalizationFailures =>
          /\ image.normalized = 1 /\ invocations = 0 /\ attempt = 0
          /\ delays = <<>> /\ bk = NoBackoff /\ tmo = NoTimer
     /\ (image.st = "done" /\ invocations > 0) => image.res = caller

C20_Witness ==
  /\ kind = "image" /\ image.source = "url" /\ image.normalized = 1
  /\ cfg.retries = 2 /\ invocations = 3 /\ image.writes = <<BlobOf(1), BlobOf(1), BlobOf(1)>>
  /\ image.res.tag = "err" /\ image.res.msg = "write rejected"

\* C21 (as claimed): whenever navigator.permissions is absent,
\* queryPermission('read') and queryPermission('write') resolve with
\* {state: 'prompt'} and never reject, in every execution context.
C21_AbsentResolvesPrompt ==
  (perm.st # "none" /\ perm.name \in {"read", "write"} /\ ~perm.query)
    => perm.res = PermissionState("prompt")

\* C21 (amended): whenever navigator.permissions is absent,
\* queryPermission('read') and queryPermission('write') never reject and
\* never ask the platform; they resolve with {state: 'prompt'} in every
\* execution context but Node.js, where they resolve with {state: 'granted'}.
C21_AbsentResolves ==
  (perm.st # "none" /\ perm.name \in {"read", "write"} /\ ~perm.query)
    => /\ perm.st = "done"
       /\ perm.asked = <<>>
       /\ perm.res = PermissionState(IF isNode THEN "granted" ELSE "prompt")

C21_Witness ==
  /\ isBrowser /\ ~isNode /\ ~perm.query /\ perm.name = "read"
  /\ perm.res = PermissionState("prompt")

\* C22: for 'read' or 'write', a platform query that throws or whose promise
\* rejects is never handed on: queryPermission resolves with {state:
\* 'prompt'}; a query that succeeds resolves with exactly the state the
\* platform reported.
C22_QueryFailure ==
  (perm.st = "done" /\ perm.asked # <<>>)
    => /\ perm.name \in {"read", "write"}
       /\ perm.asked = <<ClipboardPermission(perm.name)>>
       /\ perm.outcome \in {"threw", "rejected", "resolved"}
       /\ perm.outcome \in {"threw", "rejected"} => perm.res = PermissionState("prompt")
       /\ perm.outcome = "resolved" => /\ perm.reported \in PermissionStates
                                       /\ perm.res = PermissionState(perm.reported)

C22_Witness ==
  /\ perm.st = "done" /\ perm.name = "write" /\ perm.outcome = "rejected"
  /\ perm.res = PermissionState("prompt")

\* C23: where the context is neither a document nor a Node.js process, every
\* operation (copy, cut, read, copyImage, copyBlob, copyRich) rejects: none
\* of them ever resolves, and each has rejected once no retry is pending; no
\* mechanism (API call, DOM command, process) is ever attempted, and
\* checkSupport() returns false.
C23_NeitherContext ==
  (~isBrowser /\ ~isNode)
    => /\ apiCalls = 0 /\ legacyCalls = 0 /\ spawns = 0
       /\ api = "idle" /\ p1 = NoProc /\ p2 = NoProc
       /\ cur.mechs = <<>>
       /\ caller.tag # "ok" /\ cut.res.tag # "ok" /\ image.res.tag # "ok"
       /\ support # "true"
       /\ kind = "cut" => cut.res.tag = "err"
       /\ kind = "image" => image.res.tag = "err"
       /\ kind \in {"blob", "rich"} => caller.tag = "err" /\ invocations = 0
       /\ (kind \in {"copy", "read"} /\ ~bk.armed) => caller.tag = "err"
       /\ (kind \in {"copy", "read"} /\ caller.tag = "pending")
            => bk.armed /\ invocations <= cfg.retries

C23_Witness ==
  /\ ~isBrowser /\ ~isNode /\ kind = "copy" /\ support = "false"
  /\ invocations = DefaultRetries + 1
  /\ caller = Err("No clipboard method available in this environment", 0, invocations)

\* the record is the one owed for the paste event it names
IsPasteRecord(r) ==
  LET cd == r.originalEvent
  IN /\ r.text = (IF cd.present /\ cd.text.k = "value" THEN cd.text.v ELSE <<>>)
     /\ r.html = (IF cd.present /\ cd.html.k = "value" THEN cd.html.v ELSE <<>>)
     /\ r.files = (IF cd.present /\ cd.files.k = "value" THEN cd.files.v ELSE <<>>)

\* C24: a listener registered with onPaste has its callback invoked exactly
\* once for every paste event it is there to observe while registered, with
\* a record whose text and html are '' and whose files are empty when the
\* event carries none or reading them throws; after destroy() of the handle
\* the callback is not invoked again, and a further destroy() changes
\* nothing: the listeners of the other handles stay.
C24_PasteListener ==
  \A i \in 1..Len(paste.bindings) :
    LET b == paste.bindings[i]
    IN /\ Len(b.delivered) = b.observed
       /\ b.late = 0
       /\ \A k \in 1..Len(b.delivered) : IsPasteRecord(b.delivered[k])
       /\ (b.destroys = 0) <=> (Listener(ListenerNode(b.target), i, FALSE) \in paste.dom)
       /\ Cardinality(paste.dom) =
            Cardinality({j \in 1..Len(paste.bindings) : paste.bindings[j].destroys = 0})

C24_Witness ==
  \E i \in 1..Len(paste.bindings) :
    LET b == paste.bindings[i]
    IN /\ b.destroys = 2 /\ paste.pastes = MaxPastes
       /\ Len(b.delivered) = 1
       /\ b.delivered[1].originalEvent.text = Throws
       /\ b.delivered[1].text = <<>> /\ b.delivered[1].html = <<>>
       /\ b.delivered[1].files = <<"f">>
       /\ b.target = "selector"

\* the listener records the instance holds
Registered == UNION {{em.events[ev][i] : i \in 1..Len(em.events[ev])} : ev \in EventNames}

\* C25: once destroy() has returned the instance holds no listener and its
\* click binding is gone, and no listener is invoked any more, whether an
\* operation was in flight or destroy() was called by a listener during an
\* emit; the click binding is deregistered once.
C25_DestroyRemovesAll ==
  /\ em.destroyed => (Registered = {} /\ ~em.bound)
  /\ em.late = 0
  /\ em.unbinds <= 1

\* C26: a listener registered with once() is invoked at most once, whatever
\* emits follow, one from inside a listener of the event and one in which a
\* later listener throws among them.
C26_OnceAtMostOnce ==
  \A id \in 1..Len(em.count) : em.count[id].once => em.count[id].n <= 1

\* C27: after off(event, fn) has returned no later emit of the event invokes
\* fn unless it was registered again, also when off was called by a listener
\* during an emit of the event that has a once listener.
C27_OffRemoves == em.stale = 0

\* the mechanism attempts of the call that have started and not yet reported
InFlight ==
  (IF api # "idle" THEN 1 ELSE 0)
  + (IF p1.st # "none" /\ ~p1.finished THEN 1 ELSE 0)
  + (IF p2.st # "none" /\ ~p2.finished THEN 1 ELSE 0)

C29_Sequential ==
  /\ InFlight <= 1
  /\ Len(cur.mechs) <= 2
  /\ Len(cur.mechs) = 2
       => \/ cur.mechs = <<"api", "legacy">> /\ cur.apiRes = "rejected" /\ api = "idle"
          \/ /\ cur.mechs = <<"primary", "secondary">>
             /\ p1.finished /\ p1.events # <<>> /\ p1.events[1] = "error"
  /\ bk.armed => (InFlight = 0 /\ cur.res.tag = "err")
  /\ seq.tag # "pending" => InFlight = 0
  /\ kind \in {"copy", "read"} /\ _isString(arg) => attempt >= invocations - 1

C29_Witness ==
  /\ kind = "copy" /\ cur.mechs = <<"primary", "secondary">>
  /\ p1.finished /\ p2.st = "running" /\ ~p2.finished
  /\ invocations = 2

\* C30: the timeout abandons, it does not cancel.  While a headless copy
\* whose caller holds the timeout error has neither settled nor a wait
\* pending, its utility process is still in flight; and when the sequence
\* succeeds after the caller got the timeout error, the utility has put the
\* text on the system clipboard.
C30_AbandonsNotCancels ==
  (kind = "copy" /\ ~isBrowser /\ isNode /\ IsTimeoutError(caller))
    => /\ cfg.timeout > 0
       /\ (seq.tag = "pending" /\ ~bk.armed) => InFlight = 1
       /\ seq.tag = "ok" => (clipboard = arg.val /\ seq.text = arg.val)

C30_Witness ==
  /\ kind = "copy" /\ ~isBrowser /\ isNode
  /\ IsTimeoutError(caller) /\ cfg.timeout > 0
  /\ invocations = 1 /\ p1.st = "closed" /\ p1.code = 0
  /\ seq.tag = "ok" /\ clipboard = arg.val /\ clipboard # <<"z">>

\* C37: once the timeout timer has fired, the operation is not invoked
\* again and no mechanism is started for the call, and no backoff timer of
\* the call is pending.
C37_NoAttemptAfterTimeout ==
  /\ [](tmo.st = "fired" => ~bk.armed)
  /\ [][tmo.st = "fired" =>
          /\ invocations' = invocations
          /\ apiCalls' = apiCalls /\ legacyCalls' = legacyCalls /\ spawns' = spawns]_vars

\* how often mechanism m was started by the invocation in progress
MechCount(m) == Cardinality({i \in 1..Len(cur.mechs) : cur.mechs[i] = m})

\* what the first event of utility process p decided: "ok" for a 'close'
\* with exit code 0, else the message of the rejection
FirstEventOutcome(p, onError, onExit) ==
  IF ErrorFirst(p) THEN onError
  ELSE IF p.code = 0 THEN "ok" ELSE onExit

Outcome(r) == IF r.tag = "ok" THEN "ok" ELSE r.msg

\* C38: in every adapter call, write or read, and for every order of the
\* child processes' 'error' and 'close' events, the adapter's promise is
\* settled by the first event of the process that decides (the primary
\* utility, or xsel once the primary failed to start where xsel is tried),
\* later events change nothing and count no further failure, xsel is spawned
\* at most once and the call spawns at most two processes.
C38_SettlesOnFirstEvent ==
  /\ MechCount("primary") <= 1 /\ MechCount("secondary") <= 1
  /\ spawns <= 2 * invocations
  /\ p2.st # "none" => p1.st # "none" /\ ErrorFirst(p1)
  /\ p1.st # "none" =>
       LET write == p1.mode = "write"
       IN /\ p1.events = <<>> => cur.res.tag = "pending"
          /\ Len(p1.events) <= 2 /\ Len(p2.events) <= 2
          /\ CloseFirst(p1) =>
               /\ p2 = NoProc
               /\ Outcome(cur.res) =
                    FirstEventOutcome(p1, "",
                      IF write THEN "Clipboard command exited with code"
                      ELSE "Clipboard read command exited with code")
               /\ cur.res.tag = "err" => cur.res.code = p1.code
          /\ (ErrorFirst(p1) /\ ~HasSecondary(platform)) =>
               /\ p2 = NoProc
               /\ Outcome(cur.res) = (IF write THEN "Clipboard command failed"
                                      ELSE "Clipboard read command failed")
          /\ (ErrorFirst(p1) /\ HasSecondary(platform) /\ p2.st # "none") =>
               /\ p2.events = <<>> => cur.res.tag = "pending"
               /\ p2.events # <<>> =>
                    /\ Outcome(cur.res) =
                         FirstEventOutcome(p2,
                           IF write THEN "No clipboard command available"
                           ELSE "No clipboard read command available",
                           IF write THEN "xsel exited with code"
                           ELSE "xsel read exited with code")
                    /\ (cur.res.tag = "err" /\ CloseFirst(p2)) => cur.res.code = p2.code
          /\ attempt = (IF cur.res.tag = "err" THEN invocations ELSE invocations - 1)

C38_Witness ==
  /\ kind = "copy" /\ platform = "linux"
  /\ p1.events = <<"error", "close">>
  /\ p2.events = <<"close", "error">> /\ p2.code = 0
  /\ MechCount("secondary") = 1
  /\ cur.res = Ok(arg.val) /\ invocations = 1 /\ spawns = 2

\* C40: in the cut emulation the element is cleared only after the fallback
\* copy has resolved.  Whenever the element no longer holds the harvested
\* text, the copy has resolved with that text and the clipboard holds it;
\* while the copy is pending, over all its attempts and backoff waits, the
\* element is as it was; and when the copy rejects, which it does after its
\* retries are used up, cut rejects with that very error and the element is
\* as it was.
C40_ClearedAfterCopy ==
  (_isElement(element) /\ cut.cmd \in {"false", "throw"}) =>
     /\ element.content \in {cut.text, <<>>}
     /\ element.content # cut.text =>
          /\ seq = Ok(cut.text) /\ cur.res = Ok(cut.text)
          /\ clipboard = cut.text
          /\ cut.res = Ok(cut.text)
     /\ (bk.armed \/ api # "idle" \/ seq.tag = "pending") => element.content = cut.text
     /\ seq.tag = "err" =>
          /\ invocations = cfg.retries + 1 /\ seq = cur.res
          /\ cut.st = "done" /\ cut.res = seq
          /\ element.content = cut.text

C40_Witness ==
  /\ element.nodeName = "TEXTAREA" /\ cut.cmd = "false"
  /\ invocations = 3 /\ seq.tag = "err" /\ cut.res = seq
  /\ element.content = <<"a">> /\ cut.text = <<"a">>

ChainChoice(doc, apiPresent, node) ==
  IF doc /\ apiPresent THEN "api"
  ELSE IF doc THEN "legacy"
  ELSE IF node THEN "primary"
  ELSE "none"

\* C34 as stated: every attempt selects its mechanism from the values the
\* write API's availability and the execution context have when it begins.
C34_ReEvaluatedEveryAttempt ==
  [][invocations' = invocations + 1 =>
       FirstMech' = ChainChoice(hasDocument, writeApi, isNode)]_vars

\* C34 amended: every attempt selects its mechanism from the availability
\* the write API has when the attempt begins and from the execution context
\* found when the library was loaded, which never changes afterwards.
C34_ApiReEvaluatedContextFixed ==
  /\ [][invocations' = invocations + 1 =>
          FirstMech' = ChainChoice(isBrowser, writeApi, isNode)]_vars
  /\ [][isBrowser' = isBrowser /\ isNode' = isNode]_vars

C34_Witness ==
  /\ isBrowser /\ envChanges = 1 /\ invocations = 2 /\ legacyCalls = 1
  /\ writeApi /\ cur.seen /\ FirstMech = "api"

\* the closure of the i-th call
Call(i) == IF i = 1 THEN Closure(W) ELSE second

\* C31 as stated: of two overlapping calls whose operations fail on every
\* invocation, each has invoked its operation exactly retries + 1 times when
\* its sequence has failed, and its caller holds the error of its own last
\* invocation.
C31_OwnLastError ==
  \A i \in 1..2 :
    LET c == Call(i) IN
    c.seq.tag = "err" =>
      /\ c.invocations = c.cfg.retries + 1
      /\ c.caller = c.cur.res /\ c.caller.inv = c.cfg.retries + 1

\* C31 amended: of two overlapping calls, under every interleaving of their
\* attempts, backoff timers and timeouts, neither invokes its operation more
\* than its own retries + 1 times; when a call's sequence has failed, the
\* call has made exactly its own retries + 1 invocations and as many
\* failures were counted, the sequence holds the error of the call's own
\* last invocation, and the caller holds that error, or the call's own
\* timeout error if its timer fired first.
C31_CallsIndependent ==
  \A i \in 1..2 :
    LET c == Call(i) IN
    /\ c.invocations <= c.cfg.retries + 1
    /\ c.attempt <= c.invocations
    /\ c.seq.tag = "err" =>
         /\ c.invocations = c.cfg.retries + 1 /\ c.attempt = c.cfg.retries + 1
         /\ c.seq = c.cur.res /\ c.seq.inv = c.cfg.retries + 1
         /\ c.seq.msg = (IF isBrowser THEN "execCommand copy failed"
                         ELSE IF c.p1.events[1] = "error" THEN "Clipboard command failed"
                         ELSE "Clipboard command exited with code")
         /\ IF c.tmo.st = "fired"
            THEN IsTimeoutError(c.caller) /\ c.caller.code = c.cfg.timeout
            ELSE c.caller = c.seq

C31_Witness ==
  /\ Len(log) = 2 /\ start = second.start
  /\ cfg.retries = 1 /\ invocations = 2 /\ seq.tag = "err" /\ seq.inv = 2
  /\ IsTimeoutError(caller)
  /\ second.cfg.retries = 0 /\ second.invocations = 1 /\ second.seq.tag = "err"
  /\ second.caller = second.seq /\ second.caller.inv = 1
  /\ second.callerAt > start /\ callerAt > second.start

\* the calls whose write has reached the clipboard, in the order of landing
RECURSIVE LandedCalls(_)
LandedCalls(l) ==
  IF l = <<>> THEN <<>>
  ELSE IF Head(l).ev = "landed" THEN <<Head(l).call>> \o LandedCalls(Tail(l))
  ELSE LandedCalls(Tail(l))

\* C32: two overlapping copy calls are not serialized.  Each call starts its
\* own write in the task in which it is made and in every retry, whatever
\* the other call is doing; a call that resolves does so with its own text,
\* after its own write has landed; every write a mechanism reports as done
\* has landed, once; and the clipboard holds the text of the write that
\* landed last.
C32_LastWriteWins ==
  LET landed == LandedCalls(log) IN
  /\ landed # <<>> => clipboard = CallText(landed[Len(landed)]).val
  /\ landed = <<>> => clipboard = <<"z">>
  /\ \A i \in 1..2 :
       LET c == Call(i)
           lands == {k \in 1..Len(landed) : landed[k] = i}
       IN /\ Cardinality(lands) <= 1
          /\ c.kind = "copy" =>
               /\ c.invocations >= 1 /\ c.cur.mechs # <<>>
               /\ c.arg = CallText(i)
          /\ c.caller.tag = "ok" => c.caller = Ok(CallText(i).val) /\ lands # {}
          /\ c.seq.tag = "ok" <=> lands # {}
          /\ (c.api = "write" \/ (c.p1.st = "running" /\ ~c.p1.finished)) =>
               c.seq.tag = "pending" /\ lands = {}

C32_Witness ==
  /\ log = <<[ev |-> "call", call |-> 1], [ev |-> "call", call |-> 2],
             [ev |-> "landed", call |-> 2], [ev |-> "landed", call |-> 1]>>
  /\ caller = Ok(<<"a">>) /\ second.caller = Ok(<<"b">>)
  /\ clipboard = <<"a">>


\* the click failed onClick's validation: its action is neither 'copy' nor
\* 'cut', or the trigger gives no text and either no target, or a cut whose
\* target is readonly or disabled, or a plain copy whose target is disabled
ClickRefused ==
  /\ inst.st # "none"
  /\ \/ inst.action \notin {"copy", "cut"}
     \/ /\ inst.text = <<>>
        /\ \/ inst.target = NoTarget
           \/ inst.action = "cut" /\ (inst.target.readonly \/ inst.target.disabled)
           \/ inst.action = "copy" /\ ~inst.rich /\ inst.target.disabled

\* C35: click validation precedes any mechanism.  A click whose action is
\* not 'copy' or 'cut', or which (the trigger giving no text) resolves to a
\* cut of a readonly or disabled target, to a plain copy of a disabled
\* target or to neither text nor target, emits one 'error' event and nothing
\* else, starts no operation, no attempt and no clipboard mechanism, leaves
\* the clipboard as it was, and selects, clears or creates no element.
C35_ValidationPrecedesMechanism ==
  ClickRefused =>
    /\ inst.st = "done" /\ inst.emitted = <<"error">>
    /\ kind = "none" /\ invocations = 0 /\ cur = NoInvocation
    /\ apiCalls = 0 /\ legacyCalls = 0 /\ spawns = 0 /\ api = "idle"
    /\ clipboard = <<"z">>
    /\ cut = NoCut /\ element = NoElement /\ page = NoTemps
    /\ inst.target # NoTarget => inst.target.el.content = <<"b">>

C35_Witness ==
  /\ inst.st = "done" /\ inst.action = "cut" /\ inst.text = <<>>
  /\ inst.target # NoTarget /\ inst.target.readonly /\ ~inst.target.disabled
  /\ inst.target.el.nodeName = "TEXTAREA"
  /\ inst.emitted = <<"error">>
  /\ em.events["error"] # <<>> /\ em.count = <<[once |-> FALSE, n |-> 1]>>

\* C36: every click handled by an instance emits exactly one of 'success'
\* and 'error': none while its operation is pending, one once it has
\* settled or was refused, 'success' only for an operation that resolved and
\* 'error' only for a click that was refused or whose operation rejected,
\* whatever the listeners do.
C36_ExactlyOneEvent ==
  /\ inst.st = "operating" => inst.emitted = <<>>
  /\ inst.st = "done" =>
       /\ Len(inst.emitted) = 1
       /\ inst.emitted[1] = "error" =>
            ClickRefused \/ OperationPromise(W).tag = "err"
       /\ inst.emitted[1] = "success" => OperationPromise(W).tag = "ok"

\* C39: the retry settings of the instance govern every operation a click
\* starts: the operation under way, the cut emulation's copy included, runs
\* under the instance's retries, retryDelay and timeout and makes at most
\* retries + 1 attempts.
C39_InstanceSettingsGovern ==
  (inst.st # "none" /\ invocations > 0) =>
    /\ cfg = inst.settings
    /\ invocations <= inst.settings.retries + 1


====
